---- MODULE Spec2Model ----
(***************************************************************************)
(* Model of the resume parser of format_resume.py: the date-range pattern, *)
(* the experience-zone line classifier of simple_parse_resume, the         *)
(* validator validate_and_clean_data, the facade parse_resume_with_claude  *)
(* and the text extractors.                                                *)
(*                                                                         *)
(* A Python string is a sequence of characters; a character is a           *)
(* one-character TLA+ string, except for the characters the TLA+ lexer     *)
(* does not accept, which are named atoms (EmDash, EnDash, Bullet, NUL,    *)
(* SOH, DEL, NEL).                                                         *)
(***************************************************************************)
EXTENDS Integers, Sequences, FiniteSets, TLC

(***************************************************************************)
(* Characters                                                              *)
(***************************************************************************)
EmDash == "EM"
EnDash == "EN"
Bullet == "BUL"
NUL == "NUL"
SOH == "SOH"
DEL == "DEL"
NEL == "NEL"
NL == "\n"
TAB == "\t"

Digits == {"0", "1", "2", "3", "4", "5", "6", "7", "8", "9"}

LowerSeq ==
  <<"a", "b", "c", "d", "e", "f", "g", "h", "i", "j", "k", "l", "m",
    "n", "o", "p", "q", "r", "s", "t", "u", "v", "w", "x", "y", "z">>

UpperSeq ==
  <<"A", "B", "C", "D", "E", "F", "G", "H", "I", "J", "K", "L", "M",
    "N", "O", "P", "Q", "R", "S", "T", "U", "V", "W", "X", "Y", "Z">>

LowerLetters == {LowerSeq[k] : k \in 1..26}

UpperLetters == {UpperSeq[k] : k \in 1..26}

Letters == LowerLetters \cup UpperLetters

\* the characters of the model that str.strip() and the regex class \s
\* treat as whitespace
Whitespace == {" ", TAB, NL}

\* str.lower() on the cased characters
LowerMap ==
  [c \in UpperLetters |-> LowerSeq[CHOOSE k \in 1..26 : UpperSeq[k] = c]]

\* str.lower() on one character
LowerChar(c) == IF c \in UpperLetters THEN LowerMap[c] ELSE c

(***************************************************************************)
(* Python string operations on character sequences                         *)
(***************************************************************************)
\* str.lower()
Lower(s) == [k \in 1..Len(s) |-> LowerChar(s[k])]

\* s[p:] for a 1-based position p
From(s, p) == SubSeq(s, p, Len(s))

\* the pattern/substring w occurs in s at position p
At(s, p, w) ==
  /\ p >= 1
  /\ p + Len(w) - 1 <= Len(s)
  /\ \A k \in 1..Len(w) : s[p + k - 1] = w[k]

\* the same, ignoring case (re.IGNORECASE on a literal)
AtI(s, p, w) ==
  /\ p >= 1
  /\ p + Len(w) - 1 <= Len(s)
  /\ \A k \in 1..Len(w) : LowerChar(s[p + k - 1]) = LowerChar(w[k])

\* w in s
Contains(s, w) == \E p \in 1..(Len(s) + 1) : At(s, p, w)

\* s.startswith(w)
StartsWith(s, w) == At(s, 1, w)

\* s.endswith(w)
EndsWith(s, w) == Len(w) <= Len(s) /\ At(s, Len(s) - Len(w) + 1, w)

\* first position >= p whose character is not in the class cls (Len(s)+1
\* when there is none): the end of a greedy cls* starting at p
RECURSIVE SkipSet(_, _, _)
SkipSet(s, p, cls) ==
  IF p <= Len(s) /\ s[p] \in cls THEN SkipSet(s, p + 1, cls) ELSE p

\* last position <= p whose character is not in cls (0 when there is none)
RECURSIVE SkipSetBack(_, _, _)
SkipSetBack(s, p, cls) ==
  IF p >= 1 /\ s[p] \in cls THEN SkipSetBack(s, p - 1, cls) ELSE p

\* s.lstrip(chars), s.rstrip(chars), s.strip()
LStripSet(s, cls) == From(s, SkipSet(s, 1, cls))

RStripSet(s, cls) == SubSeq(s, 1, SkipSetBack(s, Len(s), cls))

Strip(s) == RStripSet(LStripSet(s, Whitespace), Whitespace)

\* sep.join(parts)
RECURSIVE Join(_, _)
Join(parts, sep) ==
  IF parts = <<>> THEN <<>>
  ELSE IF Len(parts) = 1 THEN parts[1]
  ELSE parts[1] \o sep \o Join(Tail(parts), sep)

\* the elements of a sequence
Range(seq) == {seq[k] : k \in DOMAIN seq}

\* F(v), with v computed once
Bind(v, F(_)) == CHOOSE r \in {F(x) : x \in {v}} : TRUE

\* concatenation of a sequence of strings
Cat(parts) == Join(parts, <<>>)

\* s.split(c) for a one-character separator c
RECURSIVE SplitChar(_, _)
SplitChar(s, c) ==
  IF \E p \in 1..Len(s) : s[p] = c
    THEN LET p == CHOOSE q \in 1..Len(s) :
                    s[q] = c /\ \A r \in 1..(q - 1) : s[r] # c
         IN  <<SubSeq(s, 1, p - 1)>> \o SplitChar(From(s, p + 1), c)
    ELSE <<s>>

\* str.isupper(): at least one cased character and no lowercase one
IsUpper(s) ==
  /\ \E k \in 1..Len(s) : s[k] \in UpperLetters
  /\ \A k \in 1..Len(s) : s[k] \notin LowerLetters

\* [f(x) for x in xs if keep]
RECURSIVE StripNonEmpty(_)
StripNonEmpty(parts) ==
  IF parts = <<>> THEN <<>>
  ELSE IF Strip(parts[1]) # <<>>
    THEN <<Strip(parts[1])>> \o StripNonEmpty(Tail(parts))
    ELSE StripNonEmpty(Tail(parts))

(***************************************************************************)
(* date_pattern (format_resume.py:144).  ic is TRUE where the code passes  *)
(* re.IGNORECASE (every use but the one at line 448).                      *)
(***************************************************************************)
MonthNames ==
  {<<"J", "a", "n">>, <<"F", "e", "b">>, <<"M", "a", "r">>, <<"A", "p", "r">>,
   <<"M", "a", "y">>, <<"J", "u", "n">>, <<"J", "u", "l">>, <<"A", "u", "g">>,
   <<"S", "e", "p">>, <<"O", "c", "t">>, <<"N", "o", "v">>, <<"D", "e", "c">>}

\* a literal word at position p
Lit(s, p, w, ic) == IF ic THEN AtI(s, p, w) ELSE At(s, p, w)

MonthNamesLower == {Lower(m) : m \in MonthNames}

\* (?:Jan|Feb|...|Dec) at position p
MonthAt(s, p, ic) ==
  /\ p >= 1
  /\ p + 2 <= Len(s)
  /\ s[p] \in Letters
  /\ IF ic
       THEN <<LowerChar(s[p]), LowerChar(s[p + 1]), LowerChar(s[p + 2])>>
              \in MonthNamesLower
       ELSE <<s[p], s[p + 1], s[p + 2]>> \in MonthNames

\* the class [a-z]
AZ(ic) == IF ic THEN Letters ELSE LowerLetters

\* the class [-–—to\s]
SepClass(ic) ==
  {"-", EnDash, EmDash, "t", "o"} \cup Whitespace
    \cup (IF ic THEN {"T", "O"} ELSE {})

\* end of (?:Jan|...|Dec)[a-z]*\.? matched greedily at p (a month is at p)
MonthWordEnd(s, p, ic) ==
  LET a == SkipSet(s, p + 3, AZ(ic))
  IN  IF a <= Len(s) /\ s[a] = "." THEN a + 1 ELSE a

\* \d{4} at position p
FourDigits(s, p) ==
  /\ p + 3 <= Len(s)
  /\ \A k \in 0..3 : s[p + k] \in Digits

\* position of the \d{4} of a match starting at p (0: no match can start
\* at p): after the optional "Month\s+" prefix, or at p itself
YearStart(s, p, ic) ==
  IF MonthAt(s, p, ic)
    THEN LET b == MonthWordEnd(s, p, ic)
             c == SkipSet(s, b, Whitespace)
         IN  IF c > b /\ FourDigits(s, c) THEN c ELSE 0
    ELSE IF FourDigits(s, p) THEN p ELSE 0

\* end of the optional right endpoint word
\* (?:Present|present|Current|current|Month[a-z]*\.?\s*)? matched at r
RightWordEnd(s, r, ic) ==
  IF \/ Lit(s, r, <<"P", "r", "e", "s", "e", "n", "t">>, ic)
     \/ Lit(s, r, <<"p", "r", "e", "s", "e", "n", "t">>, ic)
     \/ Lit(s, r, <<"C", "u", "r", "r", "e", "n", "t">>, ic)
     \/ Lit(s, r, <<"c", "u", "r", "r", "e", "n", "t">>, ic)
    THEN r + 7
  ELSE IF MonthAt(s, r, ic)
    THEN SkipSet(s, MonthWordEnd(s, r, ic), Whitespace)
  ELSE r

Min(a, b) == IF a < b THEN a ELSE b

\* re.match(date_pattern, s[p-1:]): the position after the match that starts
\* at p, 0 when no match starts at p.  \s*[-..to\s]+\s* takes the whole run
\* of separator-class characters after the year, which must not be empty;
\* everything after it is optional, so the greedy choice is never undone.
DateMatchEnd(s, p, ic) ==
  LET y == YearStart(s, p, ic)
  IN  IF y = 0 THEN 0
      ELSE LET r == SkipSet(s, y + 4, SepClass(ic))
           IN  IF r = y + 4 THEN 0
               ELSE LET g == RightWordEnd(s, r, ic)
                    IN  Min(SkipSet(s, g, Digits), g + 4)

\* the least element of a set of positions, 0 for the empty set
First(S) == IF S = {} THEN 0 ELSE CHOOSE x \in S : \A y \in S : x <= y

\* start of the leftmost match at or after p, 0 when there is none
DateFind(s, p, ic) ==
  First({q \in p..Len(s) :
           s[q] \in (Digits \cup Letters) /\ DateMatchEnd(s, q, ic) # 0})

\* re.search(date_pattern, s, re.IGNORECASE) is not None
HasDate(s) == DateFind(s, 1, TRUE) # 0

\* re.search(date_pattern, s) is not None (line 448: no flag)
HasDateCased(s) == DateFind(s, 1, FALSE) # 0

\* re.search(date_pattern, s, re.IGNORECASE).group(0), "" when no match
DateGroup(s) ==
  LET p == DateFind(s, 1, TRUE)
  IN  IF p = 0 THEN <<>> ELSE SubSeq(s, p, DateMatchEnd(s, p, TRUE) - 1)

\* re.sub(date_pattern, '', s, flags=re.IGNORECASE)
RECURSIVE DateSubFrom(_, _)
DateSubFrom(s, p) ==
  LET q == DateFind(s, p, TRUE)
  IN  IF q = 0 THEN From(s, p)
      ELSE SubSeq(s, p, q - 1) \o DateSubFrom(s, DateMatchEnd(s, q, TRUE))

DateSub(s) == DateSubFrom(s, 1)

(***************************************************************************)
(* Regular expressions of the experience parser                            *)
(***************************************************************************)
\* s.split on every character of the class cls
RECURSIVE SplitSet(_, _)
SplitSet(s, cls) ==
  IF \E p \in 1..Len(s) : s[p] \in cls
    THEN LET p == CHOOSE q \in 1..Len(s) :
                    s[q] \in cls /\ \A r \in 1..(q - 1) : s[r] \notin cls
         IN  <<SubSeq(s, 1, p - 1)>> \o SplitSet(From(s, p + 1), cls)
    ELSE <<s>>

\* re.split(r'\s*[cls]\s*', s): the whitespace around each delimiter belongs
\* to the delimiter; the outer ends of the first and last part are kept
RegexSplit(s, cls) ==
  LET raw == SplitSet(s, cls)
  IN  [k \in 1..Len(raw) |->
         LET a == IF k > 1 THEN LStripSet(raw[k], Whitespace) ELSE raw[k]
         IN  IF k < Len(raw) THEN RStripSet(a, Whitespace) ELSE a]

\* parts[k] if len(parts) > k else ""   (k is the Python index)
PartOr(parts, k) == IF Len(parts) > k THEN parts[k + 1] ELSE <<>>

\* ,?\s*(Jan|...|Dec) matches at q (re.IGNORECASE)
TailAt(s, q) ==
  LET a == IF q <= Len(s) /\ s[q] = "," THEN q + 1 ELSE q
  IN  MonthAt(s, SkipSet(s, a, Whitespace), TRUE)

\* first q >= p where the tail matches, 0 when there is none
TailFind(s, p) == First({q \in p..Len(s) : TailAt(s, q)})

\* the ends of (?:Billion|Million|B|M)? at p, in the order the regex engine
\* tries them
UnitEnds(s, p) ==
  (IF AtI(s, p, <<"B", "i", "l", "l", "i", "o", "n">>) THEN <<p + 7>> ELSE <<>>)
  \o (IF AtI(s, p, <<"M", "i", "l", "l", "i", "o", "n">>) THEN <<p + 7>> ELSE <<>>)
  \o (IF AtI(s, p, <<"B">>) THEN <<p + 1>> ELSE <<>>)
  \o (IF AtI(s, p, <<"M">>) THEN <<p + 1>> ELSE <<>>)
  \o <<p>>

\* the positions a greedy quantifier that matched [lo, hi) can end at, in
\* backtracking order: hi, hi-1, ..., lo
Backoff(lo, hi) == [k \in 1..(hi - lo + 1) |-> hi - k + 1]

\* the first non-zero element of xs, 0 when there is none
RECURSIVE FirstNonZero(_)
FirstNonZero(xs) ==
  IF xs = <<>> THEN 0
  ELSE IF xs[1] # 0 THEN xs[1]
  ELSE FirstNonZero(Tail(xs))

\* group(1) of re.match(r'\$[\d.]+\s*(?:Billion|Million|B|M)?\s*(.*?),?\s*
\* (Jan|...|Dec)', s, re.IGNORECASE) as <<start, end>> (end exclusive), or
\* <<>> when the pattern does not match.  The prefix is matched greedily and
\* backed off in the engine's order until the lazy group can reach a month.
CompanyGroup(s) ==
  IF ~(Len(s) >= 2 /\ s[1] = "$" /\ s[2] \in (Digits \cup {"."}))
    THEN <<>>
  ELSE
    LET Start(w2) == IF TailFind(s, w2) # 0 THEN w2 ELSE 0
        AfterUnit(u) ==
          FirstNonZero([k \in 1..Len(Backoff(u, SkipSet(s, u, Whitespace))) |->
                          Start(Backoff(u, SkipSet(s, u, Whitespace))[k])])
        AfterWs1(w1) ==
          FirstNonZero([k \in 1..Len(UnitEnds(s, w1)) |->
                          AfterUnit(UnitEnds(s, w1)[k])])
        AfterNum(d) ==
          FirstNonZero([k \in 1..Len(Backoff(d, SkipSet(s, d, Whitespace))) |->
                          AfterWs1(Backoff(d, SkipSet(s, d, Whitespace))[k])])
        dmax == SkipSet(s, 2, Digits \cup {"."})
        st == FirstNonZero([k \in 1..Len(Backoff(3, dmax)) |->
                              AfterNum(Backoff(3, dmax)[k])])
    IN  IF st = 0 THEN <<>> ELSE <<st, TailFind(s, st)>>

\* re.sub(r'^[•\-\*]\s*', '', s) then re.sub(r'^\(cid:\d+\)\s*', '', .)
BulletMarkers == {Bullet, "-", "*"}

StripMarker(s) ==
  IF s # <<>> /\ s[1] \in BulletMarkers
    THEN From(s, SkipSet(s, 2, Whitespace))
    ELSE s

StripCid(s) ==
  IF StartsWith(s, <<"(", "c", "i", "d", ":">>)
    THEN LET d == SkipSet(s, 6, Digits)
         IN  IF d > 6 /\ d <= Len(s) /\ s[d] = ")"
               THEN From(s, SkipSet(s, d + 1, Whitespace))
               ELSE s
    ELSE s

(***************************************************************************)
(* Experience parser: the loop body of simple_parse_resume, lines 268-528. *)
(* A parser state is [i, jobs, current_job, rule]: the cursor (0-based, as *)
(* in the code), the closed jobs, the open job or None, and the branch     *)
(* the last iteration took.                                                *)
(***************************************************************************)
None == <<>>

NewJob(company, title, location, dates) ==
  [company |-> company, title |-> title, location |-> location,
   dates |-> dates, project_details |-> <<>>, bullets |-> <<>>]

\* the open job replaces the list instead of being appended to it
SavePreviousOnly(st) ==
  IF st.current_job # None THEN <<st.current_job>> ELSE st.jobs

\* if current_job: jobs.append(current_job)
SavePrevious(st) ==
  IF st.current_job # None THEN Append(st.jobs, st.current_job) ELSE st.jobs

\* exp_lines[k].strip() for a 0-based index k
LineAt(lines, k) == Strip(lines[k + 1])

\* any(x in line for x in words)
AnyIn(line, words) == \E w \in words : Contains(line, w)

University == <<"U", "n", "i", "v", "e", "r", "s", "i", "t", "y">>
College == <<"C", "o", "l", "l", "e", "g", "e">>
EDUCATION == <<"E", "D", "U", "C", "A", "T", "I", "O", "N">>
SKILLS == <<"S", "K", "I", "L", "L", "S">>
CERTIFICATION ==
  <<"C", "E", "R", "T", "I", "F", "I", "C", "A", "T", "I", "O", "N">>
CORE_COMPETENCIES ==
  <<"C", "O", "R", "E", " ", "C", "O", "M", "P", "E", "T", "E", "N", "C",
    "I", "E", "S">>

\* line 425
ContinuationStopWords == {University, College, EDUCATION, SKILLS, CERTIFICATION}

\* line 519
SectionHeaderWords == ContinuationStopWords \cup {CORE_COMPETENCIES}

\* lines 279-296, Format 1: "Title -- Company | Dates" on one line
Format1(lines, st, line) ==
  LET parts == RegexSplit(line, {EmDash, "|"})
  IN  [i |-> st.i + 1,
       jobs |-> SavePrevious(st),
       current_job |-> NewJob(Strip(PartOr(parts, 1)), Strip(PartOr(parts, 0)),
                              <<>>, Strip(PartOr(parts, 2))),
       rule |-> "format1"]

\* Format 1b without the "i += 1" of line 330
Format1bNoSkip(lines, st, line) ==
  IF st.i + 1 < Len(lines) /\ HasDate(LineAt(lines, st.i + 1))
    THEN LET next_line == LineAt(lines, st.i + 1)
             parts == RegexSplit(line, {"|"})
             location_parts == RegexSplit(Strip(DateSub(next_line)), {"|"})
         IN  [i |-> st.i + 1,
              jobs |-> SavePrevious(st),
              current_job |->
                NewJob(Strip(PartOr(parts, 0)), Strip(PartOr(parts, 1)),
                       Join(StripNonEmpty(location_parts), <<" ">>),
                       Strip(DateGroup(next_line))),
              rule |-> "format1b"]
    ELSE [st EXCEPT !.i = st.i + 1, !.rule = "pipe_ignored"]

\* lines 300-330, Format 1b: "COMPANY | Title" then "Dates | Location"
Format1b(lines, st, line) ==
  IF st.i + 1 < Len(lines) /\ HasDate(LineAt(lines, st.i + 1))
    THEN LET next_line == LineAt(lines, st.i + 1)
             parts == RegexSplit(line, {"|"})
             location_parts == RegexSplit(Strip(DateSub(next_line)), {"|"})
         IN  [i |-> st.i + 2,
              jobs |-> SavePrevious(st),
              current_job |->
                NewJob(Strip(PartOr(parts, 0)), Strip(PartOr(parts, 1)),
                       Join(StripNonEmpty(location_parts), <<" ">>),
                       Strip(DateGroup(next_line))),
              rule |-> "format1b"]
    ELSE [st EXCEPT !.i = st.i + 1, !.rule = "pipe_ignored"]

\* lines 338-344
LooksLikeContinuation(line) ==
  \/ EndsWith(line, <<".">>)
  \/ EndsWith(line, <<",">>)
  \/ (line # <<>> /\ line[1] \in LowerLetters)
  \/ StartsWith(line, <<"a", "n", "d", " ">>)
  \/ StartsWith(line, <<"o", "r", " ">>)

\* lines 354-358
HasSeparatorBeforeDate(next_line) ==
  LET before_date == Strip(DateSub(next_line))
  IN  \/ Contains(before_date, <<"|">>)
      \/ Contains(before_date, <<" ", EnDash, " ">>)
      \/ Contains(before_date, <<" ", EmDash, " ">>)

\* lines 360-393, Format 2: company line, then "Title | Location | Dates"
Format2Company(lines, st, line) ==
  LET next_line == LineAt(lines, st.i + 1)
      line_without_date ==
        Strip(RStripSet(Strip(DateSub(next_line)), {"|"}))
      parts == StripNonEmpty(RegexSplit(line_without_date, {"|"}))
  IN  [i |-> st.i + 2,
       jobs |-> SavePrevious(st),
       current_job |->
         NewJob(line, PartOr(parts, 0),
                IF Len(parts) > 1 THEN Join(Tail(parts), <<",", " ">>) ELSE <<>>,
                Strip(DateGroup(next_line))),
       rule |-> "format2"]

\* lines 396-421: title line, then "Company Dates" without a pipe
Format2Title(lines, st, line) ==
  LET next_line == LineAt(lines, st.i + 1)
  IN  [i |-> st.i + 2,
       jobs |-> SavePrevious(st),
       current_job |->
         NewJob(Strip(RStripSet(Strip(DateSub(next_line)), {","})), line,
                <<>>, Strip(DateGroup(next_line))),
       rule |-> "title_line"]

\* lines 424-427: the line continues the last bullet of the open job
BulletContinuation(lines, st, line) ==
  IF /\ st.current_job # None
     /\ st.current_job.bullets # <<>>
     /\ ~AnyIn(line, ContinuationStopWords)
     /\ ~IsUpper(line)
    THEN LET b == st.current_job.bullets
         IN  [st EXCEPT !.i = st.i + 1,
                        !.current_job.bullets =
                          [b EXCEPT ![Len(b)] = b[Len(b)] \o <<" ">> \o line],
                        !.rule = "continuation"]
    ELSE [st EXCEPT !.i = st.i + 1, !.rule = "short_ignored"]

\* lines 335-427: the branch for a short line without a date
Format2(lines, st, line) ==
  LET cont == LooksLikeContinuation(line)
      has_next == st.i + 1 < Len(lines)
  IN  IF /\ ~cont /\ has_next
         /\ HasDate(LineAt(lines, st.i + 1))
         /\ HasSeparatorBeforeDate(LineAt(lines, st.i + 1))
        THEN Format2Company(lines, st, line)
      ELSE IF /\ ~cont /\ has_next
              /\ HasDate(LineAt(lines, st.i + 1))
              /\ ~Contains(LineAt(lines, st.i + 1), <<"|">>)
        THEN Format2Title(lines, st, line)
      ELSE BulletContinuation(lines, st, line)

\* lines 430-459, Format 3: "$X Billion Company, Dates" then "Title"
Format3(lines, st, line) ==
  LET g == CompanyGroup(line)
      company == IF g # <<>>
                   THEN RStripSet(Strip(SubSeq(line, g[1], g[2] - 1)), {","})
                   ELSE line
      takes_next ==
        /\ st.i + 1 < Len(lines)
        /\ ~StartsWith(LineAt(lines, st.i + 1), <<Bullet>>)
        /\ ~HasDateCased(LineAt(lines, st.i + 1))
  IN  [i |-> IF takes_next THEN st.i + 2 ELSE st.i + 1,
       jobs |-> SavePrevious(st),
       current_job |->
         NewJob(company,
                IF takes_next THEN LineAt(lines, st.i + 1) ELSE <<>>,
                <<>>, DateGroup(line)),
       rule |-> "format3"]

\* lines 473-489: the title taken from the previous line
PrevTitle(lines, st, jobs) ==
  IF st.i > 0
    THEN LET prev_line == LineAt(lines, st.i - 1)
         IN  IF /\ prev_line # <<>>
                /\ ~StartsWith(prev_line, <<Bullet>>)
                /\ ~HasDate(prev_line)
                /\ Len(prev_line) < 60
                /\ ~EndsWith(prev_line, <<".">>)
                /\ ~EndsWith(prev_line, <<",">>)
               THEN IF /\ jobs # <<>>
                       /\ jobs[Len(jobs)].bullets # <<>>
                       /\ Contains(jobs[Len(jobs)].bullets[
                                     Len(jobs[Len(jobs)].bullets)], prev_line)
                      THEN <<>>
                      ELSE prev_line
               ELSE <<>>
    ELSE <<>>

\* lines 483-489 with the test of line 488 made first: the last bullet of
\* the job just closed is popped when it equals the previous line
PrevTitleJobsPopOnEqual(lines, st, jobs) ==
  IF /\ st.i > 0
     /\ jobs # <<>>
     /\ jobs[Len(jobs)].bullets # <<>>
    THEN LET prev_line == LineAt(lines, st.i - 1)
             b == jobs[Len(jobs)].bullets
         IN  IF /\ prev_line # <<>>
                /\ ~StartsWith(prev_line, <<Bullet>>)
                /\ ~HasDate(prev_line)
                /\ Len(prev_line) < 60
                /\ ~EndsWith(prev_line, <<".">>)
                /\ ~EndsWith(prev_line, <<",">>)
                /\ b[Len(b)] = prev_line
               THEN [jobs EXCEPT ![Len(jobs)].bullets = SubSeq(b, 1, Len(b) - 1)]
               ELSE jobs
    ELSE jobs

\* lines 483-489: the closed jobs after the look at the previous line; the
\* pop of line 489 is under "elif last_bullet == title", which is tested only
\* when "title in last_bullet" is false
PrevTitleJobs(lines, st, jobs) ==
  IF /\ st.i > 0
     /\ jobs # <<>>
     /\ jobs[Len(jobs)].bullets # <<>>
    THEN LET prev_line == LineAt(lines, st.i - 1)
             b == jobs[Len(jobs)].bullets
         IN  IF /\ prev_line # <<>>
                /\ ~StartsWith(prev_line, <<Bullet>>)
                /\ ~HasDate(prev_line)
                /\ Len(prev_line) < 60
                /\ ~EndsWith(prev_line, <<".">>)
                /\ ~EndsWith(prev_line, <<",">>)
                /\ ~Contains(b[Len(b)], prev_line)
                /\ b[Len(b)] = prev_line
               THEN [jobs EXCEPT ![Len(jobs)].bullets = SubSeq(b, 1, Len(b) - 1)]
               ELSE jobs
    ELSE jobs

\* lines 463-505, Format 4: "Company Dates" on one line
Format4(lines, st, line) ==
  LET saved == SavePrevious(st)
      prev_title == PrevTitle(lines, st, saved)
      takes_next ==
        /\ prev_title = <<>>
        /\ st.i + 1 < Len(lines)
        /\ ~StartsWith(LineAt(lines, st.i + 1), <<Bullet>>)
        /\ ~HasDate(LineAt(lines, st.i + 1))
  IN  [i |-> IF takes_next THEN st.i + 2 ELSE st.i + 1,
       jobs |-> PrevTitleJobs(lines, st, saved),
       current_job |->
         NewJob(Strip(RStripSet(Strip(DateSub(line)), {","})),
                IF takes_next THEN LineAt(lines, st.i + 1) ELSE prev_title,
                <<>>, DateGroup(line)),
       rule |-> "format4"]

\* line 508: the line starts with a bullet marker
IsMarked(line) ==
  \/ StartsWith(line, <<Bullet>>)
  \/ StartsWith(line, <<"-">>)
  \/ StartsWith(line, <<"*">>)
  \/ (StartsWith(line, <<"(">>) /\ Contains(line, <<"c", "i", "d", ":">>))

\* lines 508-513: an explicit bullet of the open job
BulletLine(lines, st, line) ==
  LET bullet == StripCid(StripMarker(line))
  IN  IF Len(bullet) > 10
        THEN [st EXCEPT !.i = st.i + 1,
                        !.current_job.bullets = Append(@, bullet),
                        !.rule = "bullet"]
        ELSE [st EXCEPT !.i = st.i + 1, !.rule = "bullet_dropped"]

\* lines 517-526: an unmarked line of the open job
UnmarkedLine(lines, st, line) ==
  IF /\ ~AnyIn(line, SectionHeaderWords)
     /\ ~(IsUpper(line) /\ Len(line) > 3)
     /\ ~Contains(line, <<"|">>)
     /\ Len(line) > 20
    THEN [st EXCEPT !.i = st.i + 1,
                    !.current_job.bullets = Append(@, line),
                    !.rule = "unmarked"]
    ELSE [st EXCEPT !.i = st.i + 1, !.rule = "unmarked_dropped"]

\* lines 271-273 without the "i += 1": the loop goes round on the same line
SkipBlankNoAdvance(st) == [st EXCEPT !.rule = "blank"]

\* lines 271-273: a blank line is passed over
SkipBlank(st) == [st EXCEPT !.i = st.i + 1, !.rule = "blank"]

\* lines 269-528: one iteration of "while i < len(exp_lines)"
ExpIter(lines, st) ==
  LET line == LineAt(lines, st.i)
      has_date == HasDate(line)
  IN  IF line = <<>>
        THEN SkipBlank(st)
      ELSE IF Contains(line, <<EmDash>>) /\ has_date
        THEN Format1(lines, st, line)
      ELSE IF /\ Contains(line, <<"|">>) /\ ~has_date
              /\ ~StartsWith(line, <<Bullet>>)
        THEN Format1b(lines, st, line)
      ELSE IF /\ ~has_date /\ ~StartsWith(line, <<Bullet>>)
              /\ ~StartsWith(line, <<"(">>) /\ Len(line) < 80
        THEN Format2(lines, st, line)
      ELSE IF StartsWith(line, <<"$">>) /\ has_date
        THEN Format3(lines, st, line)
      ELSE IF has_date /\ ~StartsWith(line, <<Bullet>>)
        THEN Format4(lines, st, line)
      ELSE IF st.current_job # None /\ IsMarked(line)
        THEN BulletLine(lines, st, line)
      ELSE IF st.current_job # None /\ ~has_date
        THEN UnmarkedLine(lines, st, line)
      ELSE [st EXCEPT !.i = st.i + 1, !.rule = "dropped"]

\* the branches that open a job (current_job = {...})
HeaderTags ==
  {"format1", "format1b", "format2", "title_line", "format3", "format4"}

\* the lines (0-based) that gave a header field to the job opened by the
\* iteration from st to n: the current line, the lookahead line when it is
\* consumed, and the previous line when line 481 makes it the title
UsedLines(lines, st, n) ==
  IF n.rule \in HeaderTags
    THEN <<st.i>>
           \o (IF n.i = st.i + 2 THEN <<st.i + 1>> ELSE <<>>)
           \o (IF /\ n.rule = "format4"
                  /\ PrevTitle(lines, st, SavePrevious(st)) # <<>>
                 THEN <<st.i - 1>> ELSE <<>>)
    ELSE <<>>

\* lines 263-267: the state before the first iteration
ExpStart == [i |-> 0, jobs |-> <<>>, current_job |-> None, rule |-> "start"]

\* lines 268-534: the whole loop and the final append; the value of
\* data['experience']
RECURSIVE RunExp(_, _)
RunExp(lines, st) ==
  IF st.i < Len(lines)
    THEN Bind(ExpIter(lines, st), LAMBDA n : RunExp(lines, n))
    ELSE SavePrevious(st)

ParseExperience(lines) == RunExp(lines, ExpStart)

(***************************************************************************)
(* validate_and_clean_data (lines 560-607).  A dict is a function whose    *)
(* domain is its set of keys; None, "" and [] are all the empty sequence,  *)
(* which is how the code's truth tests see them.  data['skills'] is        *)
(* [is_list, items]: a str s is [is_list |-> FALSE, items |-> <<s>>].      *)
(***************************************************************************)
\* d.get(k) and d.get(k, '')
Get(d, k) == IF k \in DOMAIN d THEN d[k] ELSE None

\* f"{exp.get('company', '')}|{exp.get('title', '')}"
ExpKey(exp) == Get(exp, "company") \o <<"|">> \o Get(exp, "title")

\* f"{edu.get('degree', '')}|{edu.get('school', '')}"
EduKey(edu) == Get(edu, "degree") \o <<"|">> \o Get(edu, "school")

\* lines 565-571 without the "and exp.get('company')" of line 569
RECURSIVE UniqueExpAnyCompany(_, _)
UniqueExpAnyCompany(exps, seen) ==
  IF exps = <<>> THEN <<>>
  ELSE IF ExpKey(exps[1]) \notin seen
    THEN <<exps[1]>>
           \o UniqueExpAnyCompany(Tail(exps), seen \cup {ExpKey(exps[1])})
    ELSE UniqueExpAnyCompany(Tail(exps), seen)

\* lines 565-571
RECURSIVE UniqueExp(_, _)
UniqueExp(exps, seen) ==
  IF exps = <<>> THEN <<>>
  ELSE IF ExpKey(exps[1]) \notin seen /\ Get(exps[1], "company") # <<>>
    THEN <<exps[1]>> \o UniqueExp(Tail(exps), seen \cup {ExpKey(exps[1])})
    ELSE UniqueExp(Tail(exps), seen)

\* lines 598-604
RECURSIVE UniqueEdu(_, _)
UniqueEdu(edus, seen) ==
  IF edus = <<>> THEN <<>>
  ELSE IF EduKey(edus[1]) \notin seen /\ Get(edus[1], "degree") # <<>>
    THEN <<edus[1]>> \o UniqueEdu(Tail(edus), seen \cup {EduKey(edus[1])})
    ELSE UniqueEdu(Tail(edus), seen)

\* lines 577 and 611
SkillIndicators ==
  {<<"p", "r", "i", "m", "a", "v", "e", "r", "a">>,
   <<"m", "i", "c", "r", "o", "s", "o", "f", "t", " ",
     "p", "r", "o", "j", "e", "c", "t">>,
   <<"p", "o", "w", "e", "r", " ", "b", "i">>,
   <<"e", "x", "c", "e", "l">>,
   <<"o", "r", "a", "c", "l", "e">>,
   <<"s", "a", "p">>}

\* lines 609-612 (and the same sum at line 578)
skill_count_in_text(text) ==
  Cardinality({w \in SkillIndicators : Contains(Lower(text), w)})

\* line 583: the stripped, non-empty, non-bulleted lines of the summary
RECURSIVE Paragraphs(_)
Paragraphs(parts) ==
  IF parts = <<>> THEN <<>>
  ELSE IF Strip(parts[1]) # <<>> /\ ~StartsWith(Strip(parts[1]), <<Bullet>>)
    THEN <<Strip(parts[1])>> \o Paragraphs(Tail(parts))
    ELSE Paragraphs(Tail(parts))

\* lines 586-589 with "<= 3" for the "< 3" of line 587
RECURSIVE FirstParagraphUpTo3(_)
FirstParagraphUpTo3(paras) ==
  IF paras = <<>> THEN None
  ELSE IF Len(paras[1]) > 100 /\ skill_count_in_text(paras[1]) <= 3
    THEN paras[1]
    ELSE FirstParagraphUpTo3(Tail(paras))

\* lines 586-589: the first substantial paragraph, None when there is none
RECURSIVE FirstParagraph(_)
FirstParagraph(paras) ==
  IF paras = <<>> THEN None
  ELSE IF Len(paras[1]) > 100 /\ skill_count_in_text(paras[1]) < 3
    THEN paras[1]
    ELSE FirstParagraph(Tail(paras))

\* lines 575-589
CleanSummary(summary) ==
  IF skill_count_in_text(summary) > 3
    THEN LET para == FirstParagraph(Paragraphs(SplitChar(summary, NL)))
         IN  IF para # None THEN para ELSE summary
    ELSE summary

\* "if data.get('skills')" for the [is_list, items] value
SkillsTruthy(skills) ==
  /\ skills # None
  /\ IF skills.is_list THEN skills.items # <<>> ELSE skills.items[1] # <<>>

\* lines 592-594 without the isinstance test of line 593: ', '.join of a str
\* joins its characters
CleanSkillsAnyIterable(skills) ==
  IF skills.is_list
    THEN [is_list |-> FALSE, items |-> <<Join(skills.items, <<",", " ">>)>>]
    ELSE [is_list |-> FALSE,
          items |-> <<Join([k \in 1..Len(skills.items[1]) |->
                              <<skills.items[1][k]>>], <<",", " ">>)>>]

\* lines 592-594
CleanSkills(skills) ==
  IF skills.is_list
    THEN [is_list |-> FALSE, items |-> <<Join(skills.items, <<",", " ">>)>>]
    ELSE skills

\* lines 560-607, for a dict data
validate_and_clean_data(data) ==
  LET d1 == IF Get(data, "experience") # <<>>
              THEN [data EXCEPT !["experience"] = UniqueExp(@, {})]
              ELSE data
      d2 == IF Get(d1, "summary") # <<>>
              THEN [d1 EXCEPT !["summary"] = CleanSummary(@)]
              ELSE d1
      d3 == IF SkillsTruthy(Get(d2, "skills"))
              THEN [d2 EXCEPT !["skills"] = CleanSkills(@)]
              ELSE d2
      d4 == IF Get(d3, "education") # <<>>
              THEN [d3 EXCEPT !["education"] = UniqueEdu(@, {})]
              ELSE d3
  IN  d4

(***************************************************************************)
(* Experience zone of simple_parse_resume (lines 243-262) and the record   *)
(* it returns.  A text is one character sequence with NL between lines.    *)
(***************************************************************************)
PROFESSIONAL == <<"P", "R", "O", "F", "E", "S", "S", "I", "O", "N", "A", "L">>
EXPERIENCE == <<"E", "X", "P", "E", "R", "I", "E", "N", "C", "E">>
EMPLOYMENT == <<"E", "M", "P", "L", "O", "Y", "M", "E", "N", "T">>
HISTORY == <<"H", "I", "S", "T", "O", "R", "Y">>
WORK == <<"W", "O", "R", "K">>
SELECTED == <<"S", "E", "L", "E", "C", "T", "E", "D">>
CORE == <<"C", "O", "R", "E">>

\* end of  first \s+ second  matched at p ignoring case, 0 when no match
TwoWordsEnd(s, p, first, second) ==
  IF AtI(s, p, first)
    THEN LET a == p + Len(first)
             b == SkipSet(s, a, Whitespace)
         IN  IF b > a /\ AtI(s, b, second) THEN b + Len(second) ELSE 0
    ELSE 0

\* end of (?:PROFESSIONAL\s+EXPERIENCE|EMPLOYMENT\s+HISTORY|WORK\s+EXPERIENCE|
\* EXPERIENCE) at p, 0 when none matches
ExpHeaderEnd(s, p) ==
  IF TwoWordsEnd(s, p, PROFESSIONAL, EXPERIENCE) # 0
    THEN TwoWordsEnd(s, p, PROFESSIONAL, EXPERIENCE)
  ELSE IF TwoWordsEnd(s, p, EMPLOYMENT, HISTORY) # 0
    THEN TwoWordsEnd(s, p, EMPLOYMENT, HISTORY)
  ELSE IF TwoWordsEnd(s, p, WORK, EXPERIENCE) # 0
    THEN TwoWordsEnd(s, p, WORK, EXPERIENCE)
  ELSE IF AtI(s, p, EXPERIENCE) THEN p + Len(EXPERIENCE)
  ELSE 0

\* end of \s*\n+ matched at h: after the last newline of the whitespace run
\* that starts at h; 0 when the run holds no newline
AfterNewlines(s, h) ==
  LET w == SkipSet(s, h, Whitespace)
      nls == {k \in h..(w - 1) : s[k] = NL}
  IN  IF nls = {} THEN 0
      ELSE (CHOOSE k \in nls : \A m \in nls : m <= k) + 1

\* the lookahead \n\s*(?:EDUCATION|SELECTED|CORE\s+SKILLS|CERTIFICATIONS?) at q
ExpBoundaryAt(s, q) ==
  /\ q <= Len(s)
  /\ s[q] = NL
  /\ LET k == SkipSet(s, q + 1, Whitespace)
     IN  \/ AtI(s, k, EDUCATION)
         \/ AtI(s, k, SELECTED)
         \/ TwoWordsEnd(s, k, CORE, SKILLS) # 0
         \/ AtI(s, k, CERTIFICATION)

\* the lookahead \n\s*EDUCATION at q
EduBoundaryAt(s, q) ==
  /\ q <= Len(s)
  /\ s[q] = NL
  /\ AtI(s, SkipSet(s, q + 1, Whitespace), EDUCATION)

\* end of the lazy (.*?) that starts at g: the first boundary or the end
LazyEnd(s, g, dollar) ==
  LET b == First({q \in g..Len(s) :
                    IF dollar THEN EduBoundaryAt(s, q) ELSE ExpBoundaryAt(s, q)})
  IN  IF b = 0 THEN Len(s) + 1 ELSE b

\* start of group(1) of exp_patterns[0] for a match that starts at p, 0 when
\* no match starts at p
ExpBodyStart(s, p) ==
  IF ExpHeaderEnd(s, p) = 0 THEN 0 ELSE AfterNewlines(s, ExpHeaderEnd(s, p))

\* group(1) of re.search(exp_patterns[0], text, DOTALL | IGNORECASE) for a
\* match that starts at or after p; None when there is no match
ExpSection(s, p) ==
  LET m == First({q \in p..Len(s) : ExpBodyStart(s, q) # 0})
  IN  IF m = 0 THEN None
      ELSE SubSeq(s, ExpBodyStart(s, m), LazyEnd(s, ExpBodyStart(s, m), FALSE) - 1)

\* line 258: the position after the date_pattern match of the dollar pattern
\* that starts at p (0: no match at p).  The prefix \$[\d.,]+\s*(unit)? is
\* matched greedily and backed off in the engine's order until the lazy .*?
\* can reach a date range.
DollarDateEnd(s, p) ==
  IF ~(p + 1 <= Len(s) /\ s[p] = "$" /\ s[p + 1] \in (Digits \cup {".", ","}))
    THEN 0
  ELSE
    LET DateAfter(u) ==
          LET q == DateFind(s, u, TRUE)
          IN  IF q = 0 THEN 0 ELSE DateMatchEnd(s, q, TRUE)
        AfterWs(w) ==
          FirstNonZero([k \in 1..Len(UnitEnds(s, w)) |->
                          DateAfter(UnitEnds(s, w)[k])])
        AfterNum(d) ==
          FirstNonZero([k \in 1..Len(Backoff(d, SkipSet(s, d, Whitespace))) |->
                          AfterWs(Backoff(d, SkipSet(s, d, Whitespace))[k])])
        dmax == SkipSet(s, p + 1, Digits \cup {".", ","})
    IN  FirstNonZero([k \in 1..Len(Backoff(p + 2, dmax)) |->
                        AfterNum(Backoff(p + 2, dmax)[k])])

\* lines 256-260: group(1) of the dollar-amount fallback, None when no match
DollarSection(s, p) ==
  LET m == First({q \in p..Len(s) : DollarDateEnd(s, q) # 0})
  IN  IF m = 0 THEN None
      ELSE SubSeq(s, m, LazyEnd(s, DollarDateEnd(s, m), TRUE) - 1)

\* lines 248-260: exp_text
ExpText(text) ==
  IF ExpSection(text, 1) # <<>> THEN ExpSection(text, 1)
  ELSE DollarSection(text, 1)

\* lines 97-105 and 262-534: the record of simple_parse_resume, given
\* exp_text.  The fields other than experience keep the values of lines
\* 97-105 here: their extraction (lines 107-239, 536-556) is not part of this
\* model.
ParsedRecord(exp_text) ==
  [name |-> <<>>,
   contact |-> [location |-> <<>>, phone |-> <<>>, email |-> <<>>],
   summary |-> <<>>,
   experience |-> IF exp_text # <<>>
                    THEN ParseExperience(SplitChar(exp_text, NL))
                    ELSE <<>>,
   education |-> <<>>,
   certifications |-> <<>>,
   skills |-> [is_list |-> FALSE, items |-> <<<<>>>>]]

\* lines 92-558; exp_text is computed once, as at lines 248-260
simple_parse_resume(resume_text) ==
  Bind(ExpText(resume_text), LAMBDA exp_text : ParsedRecord(exp_text))

(***************************************************************************)
(* State                                                                   *)
(***************************************************************************)
VARIABLES
  exp_lines,      \* experience parser: the lines of the zone
  i,              \* the cursor (0-based)
  jobs,           \* the closed jobs
  current_job,    \* the open job, or None
  rule,           \* the branch taken by the last iteration; "end" after
                  \* the final append of line 532
  opened,         \* history: the jobs as they were opened, in order
  header_lines,   \* history: the lines (0-based) that gave a header field
                  \* to a job, one entry per use
  data_in,        \* validator: the record as it was given
  data,           \* the record, cleaned in place
  runs,           \* how many times validate_and_clean_data has run on data
  pc,             \* parse_resume_with_claude: "start", "posted" (requests.post
                  \* has returned), "done" (the call is over)
  resume_text,    \* its argument
  api_key,        \* ANTHROPIC_API_KEY
  response,       \* what requests.post returned, or None
  returned,       \* the record the call returned, or None
  error,          \* the exception raised inside the try block, or "none"
  propagated,     \* TRUE when an exception left the call
  posts,          \* how many times requests.post was called in this call
  parses,         \* how many times simple_parse_resume ran in this call
  date_line,      \* date test: exp_lines[i] of one iteration
  has_date,       \* has_date of that iteration (line 276), as a truth value
  date_pc,        \* "start", "tested"
  document,       \* extractors: the file that is read
  extracted,      \* the text returned
  extract_pc,     \* "start", "done"
  fmt_file,       \* format_resume: the input file
  fmt_pc,         \* "start", "extracted", "parsing", "parsed", "generated",
                  \* "done"
  fmt_text,       \* text (line 1023 or 1025)
  fmt_parsed,     \* parsed_data, or None
  fmt_result,     \* what the call returned: "True", "False", or "none"
  parser_calls,   \* how many times a parser was called (lines 1043-1052)
  docx_runs,      \* how many times generate_formatted_docx was called
  pdf_runs,       \* how many times convert_to_pdf was called
  edu_lines,      \* education parser: the stripped non-empty lines of the zone
  edu_i,          \* the cursor (0-based)
  edu_out,        \* data['education']
  edu_rule,       \* the branch taken by the last iteration, "end" when the
                  \* loop is over
  seg_text,       \* skills zone: the text of the resume
  seg_k,          \* the position in skills_patterns of the next pattern
  seg_skills,     \* data['skills']
  seg_matched,    \* history: the positions of the patterns that matched
  seg_used,       \* history: the position of the pattern whose group was
                  \* stored, or 0
  upload,         \* servers: the file given to each request
  input_folder,   \* the files of the input folder, by request
  output_folder,  \* the documents of the output folder, newest last
  temp_json,      \* whose parsed data temp_resume_data.json holds, or 0
  req_pc,         \* where each request is in its handler
  todo,           \* the resumes the formatter of a request has yet to do
  cur,            \* the resume the formatter of a request is working on
  sent            \* the document each request returned, or None

expVars == <<exp_lines, i, jobs, current_job, rule, opened, header_lines>>
validateVars == <<data_in, data, runs>>
llmVars ==
  <<pc, resume_text, api_key, response, returned, error, propagated, posts,
    parses>>
dateVars == <<date_line, has_date, date_pc>>
extractVars == <<document, extracted, extract_pc>>
formatVars ==
  <<fmt_file, fmt_pc, fmt_text, fmt_parsed, fmt_result, parser_calls,
    docx_runs, pdf_runs>>

eduVars == <<edu_lines, edu_i, edu_out, edu_rule>>
segVars == <<seg_text, seg_k, seg_skills, seg_matched, seg_used>>
serveVars ==
  <<upload, input_folder, output_folder, temp_json, req_pc, todo, cur, sent>>
laterVars == <<eduVars, segVars, serveVars>>

vars ==
  <<expVars, validateVars, llmVars, dateVars, extractVars, formatVars,
    laterVars>>

\* what each component leaves alone
notExp ==
  <<validateVars, llmVars, dateVars, extractVars, formatVars, laterVars>>
notValidate ==
  <<expVars, llmVars, dateVars, extractVars, formatVars, laterVars>>
notLlm ==
  <<expVars, validateVars, dateVars, extractVars, formatVars, laterVars>>
notDate ==
  <<expVars, validateVars, llmVars, extractVars, formatVars, laterVars>>
notExtract ==
  <<expVars, validateVars, llmVars, dateVars, formatVars, laterVars>>
notFormat ==
  <<expVars, validateVars, dateVars, extractVars, laterVars>>

\* the variables of the education parser when it is not running
IdleEdu ==
  /\ edu_lines = <<>>
  /\ edu_i = 0
  /\ edu_out = <<>>
  /\ edu_rule = "end"

\* the variables of the skills zone when it is not searched
IdleSeg ==
  /\ seg_text = <<>>
  /\ seg_k = 0
  /\ seg_skills = <<>>
  /\ seg_matched = {}
  /\ seg_used = 0

\* the variables of the servers when there is no request
IdleServe ==
  /\ upload = <<>>
  /\ input_folder = {}
  /\ output_folder = <<>>
  /\ temp_json = 0
  /\ req_pc = <<>>
  /\ todo = <<>>
  /\ cur = <<>>
  /\ sent = <<>>

IdleLater == IdleEdu /\ IdleSeg /\ IdleServe

\* the variables of the experience parser when it is not running
IdleExp ==
  /\ exp_lines = <<>>
  /\ i = 0
  /\ jobs = <<>>
  /\ current_job = None
  /\ rule = "end"
  /\ opened = <<>>
  /\ header_lines = <<>>

\* the variables of the validator when it is not running
IdleValidate ==
  /\ data_in = None
  /\ data = None
  /\ runs = 0

\* the variables of the date test when it is not running
IdleDate ==
  /\ date_line = <<>>
  /\ has_date = FALSE
  /\ date_pc = "idle"

\* the variables of the extractors when they are not running
IdleExtract ==
  /\ document = None
  /\ extracted = <<>>
  /\ extract_pc = "idle"

\* the variables of format_resume when it is not running
IdleFormat ==
  /\ fmt_file = None
  /\ fmt_pc = "idle"
  /\ fmt_text = <<>>
  /\ fmt_parsed = None
  /\ fmt_result = "none"
  /\ parser_calls = 0
  /\ docx_runs = 0
  /\ pdf_runs = 0

\* the variables of parse_resume_with_claude when it is not running
IdleLlm ==
  /\ pc = "idle"
  /\ resume_text = <<>>
  /\ api_key = <<>>
  /\ response = None
  /\ returned = None
  /\ error = "none"
  /\ propagated = FALSE
  /\ posts = 0
  /\ parses = 0

(***************************************************************************)
(* SpecExp: the experience loop over every sequence of up to MaxLines      *)
(* lines of ExpLinePool                                                    *)
(***************************************************************************)
MaxLines == 3

\* 'Acme Corp | Senior Engineer'
LCompanyTitle ==
  <<"A", "c", "m", "e", " ", "C", "o", "r", "p", " ", "|", " ", "S", "e",
    "n", "i", "o", "r", " ", "E", "n", "g", "i", "n", "e", "e", "r">>

\* 'Jan 2019 - Dec 2021 | Austin, TX'
LDatesLocation ==
  <<"J", "a", "n", " ", "2", "0", "1", "9", " ", "-", " ", "D", "e", "c",
    " ", "2", "0", "2", "1", " ", "|", " ", "A", "u", "s", "t", "i", "n",
    ",", " ", "T", "X">>

\* '• Led migration of core services'
LBullet ==
  <<"BUL", " ", "L", "e", "d", " ", "m", "i", "g", "r", "a", "t", "i", "o",
    "n", " ", "o", "f", " ", "c", "o", "r", "e", " ", "s", "e", "r", "v",
    "i", "c", "e", "s">>

\* '• short'
LShortBullet ==
  <<"BUL", " ", "s", "h", "o", "r", "t">>

\* 'Acme Corp'
LCompany ==
  <<"A", "c", "m", "e", " ", "C", "o", "r", "p">>

\* 'Engineer | Austin | 2019 - 2020'
LTitleLocDates ==
  <<"E", "n", "g", "i", "n", "e", "e", "r", " ", "|", " ", "A", "u", "s",
    "t", "i", "n", " ", "|", " ", "2", "0", "1", "9", " ", "-", " ", "2",
    "0", "2", "0">>

\* 'Acme 2019 - Present'
LCompanyDates ==
  <<"A", "c", "m", "e", " ", "2", "0", "1", "9", " ", "-", " ", "P", "r",
    "e", "s", "e", "n", "t">>

\* 'Engineer — Acme | 2019 - 2020'
LEmDashHeader ==
  <<"E", "n", "g", "i", "n", "e", "e", "r", " ", "EM", " ", "A", "c", "m",
    "e", " ", "|", " ", "2", "0", "1", "9", " ", "-", " ", "2", "0", "2",
    "0">>

\* '$5M Acme, Jan 2019 - 2020'
LDollar ==
  <<"$", "5", "M", " ", "A", "c", "m", "e", ",", " ", "J", "a", "n", " ",
    "2", "0", "1", "9", " ", "-", " ", "2", "0", "2", "0">>

\* 'and more.'
LContinuation ==
  <<"a", "n", "d", " ", "m", "o", "r", "e", ".">>

\* ' '
LBlank ==
  <<" ">>

\* '(Delivered the new platform)'
LParen ==
  <<"(", "D", "e", "l", "i", "v", "e", "r", "e", "d", " ", "t", "h", "e",
    " ", "n", "e", "w", " ", "p", "l", "a", "t", "f", "o", "r", "m", ")">>

\* '• Built — 2019 - 2020 rollout'
LBulletEmDash ==
  <<"BUL", " ", "B", "u", "i", "l", "t", " ", "EM", " ", "2", "0", "1",
    "9", " ", "-", " ", "2", "0", "2", "0", " ", "r", "o", "l", "l", "o",
    "u", "t">>

\* '(x)'
LShortParen ==
  <<"(", "x", ")">>

\* '- Managed a team of five'
LDashBullet ==
  <<"-", " ", "M", "a", "n", "a", "g", "e", "d", " ", "a", " ", "t", "e",
    "a", "m", " ", "o", "f", " ", "f", "i", "v", "e">>

\* 'Delivered the new platform'
LPlain ==
  <<"D", "e", "l", "i", "v", "e", "r", "e", "d", " ", "t", "h", "e", " ",
    "n", "e", "w", " ", "p", "l", "a", "t", "f", "o", "r", "m">>

\* 'Acme - Austin 2019 - 2020'
LCompanyLocDates ==
  <<"A", "c", "m", "e", " ", "-", " ", "A", "u", "s", "t", "i", "n", " ",
    "2", "0", "1", "9", " ", "-", " ", "2", "0", "2", "0">>

ExpLinePool ==
  {LCompanyTitle, LDatesLocation, LBullet, LShortBullet,
   LCompany, LTitleLocDates, LCompanyDates, LEmDashHeader,
   LDollar, LContinuation, LBlank, LParen,
   LBulletEmDash, LShortParen, LDashBullet, LPlain, LCompanyLocDates}

SeqsUpTo(S, n) == UNION {[1..k -> S] : k \in 1..n}

\* the parser state as ExpIter takes it
ExpState == [i |-> i, jobs |-> jobs, current_job |-> current_job, rule |-> rule]

InitExp ==
  /\ exp_lines \in SeqsUpTo(ExpLinePool, MaxLines)
  /\ i = ExpStart.i
  /\ jobs = ExpStart.jobs
  /\ current_job = ExpStart.current_job
  /\ rule = ExpStart.rule
  /\ opened = <<>>
  /\ header_lines = <<>>
  /\ IdleValidate
  /\ IdleLlm
  /\ IdleDate
  /\ IdleExtract
  /\ IdleFormat
  /\ IdleLater

\* one iteration of the while loop of line 268
ExpStep ==
  /\ rule # "end"
  /\ i < Len(exp_lines)
  /\ \E n \in {ExpIter(exp_lines, ExpState)} :
       /\ i' = n.i
       /\ jobs' = n.jobs
       /\ current_job' = n.current_job
       /\ rule' = n.rule
       /\ opened' = (IF n.rule \in HeaderTags
                       THEN Append(opened, n.current_job) ELSE opened)
       /\ header_lines' = header_lines \o UsedLines(exp_lines, ExpState, n)
  /\ UNCHANGED <<exp_lines, notExp>>

\* lines 530-534: the loop has ended, the open job is appended
ExpFinish ==
  /\ rule # "end"
  /\ i >= Len(exp_lines)
  /\ jobs' = SavePrevious(ExpState)
  /\ rule' = "end"
  /\ UNCHANGED <<exp_lines, i, current_job, opened, header_lines, notExp>>

NextExp == ExpStep \/ ExpFinish

SpecExp == InitExp /\ [][NextExp]_vars

(***************************************************************************)
(* C3: the "Company | Title" / "Dates | Location" rule                     *)
(***************************************************************************)
\* the '|'-separated fields of a line, each stripped
Fields(line) == [k \in 1..Len(SplitChar(line, "|")) |->
                   Strip(SplitChar(line, "|")[k])]

\* the non-empty fields, in order
RECURSIVE NonEmpty(_)
NonEmpty(fs) ==
  IF fs = <<>> THEN <<>>
  ELSE IF fs[1] # <<>> THEN <<fs[1]>> \o NonEmpty(Tail(fs))
  ELSE NonEmpty(Tail(fs))

\* the cursor is on a line the rule is about: it has a '|', no date range,
\* no leading bullet, and the line after it has a date range
OnPipeHeader ==
  /\ rule # "end"
  /\ i + 1 < Len(exp_lines)
  /\ LineAt(exp_lines, i) # <<>>
  /\ Contains(LineAt(exp_lines, i), <<"|">>)
  /\ ~HasDate(LineAt(exp_lines, i))
  /\ ~StartsWith(LineAt(exp_lines, i), <<Bullet>>)
  /\ HasDate(LineAt(exp_lines, i + 1))

\* the iteration opens exactly one job from the two lines and consumes both
PipeHeaderOpened ==
  /\ i' = i + 2
  /\ jobs' = (IF current_job = None THEN jobs ELSE Append(jobs, current_job))
  /\ current_job' =
       NewJob(Fields(LineAt(exp_lines, i))[1],
              Fields(LineAt(exp_lines, i))[2],
              Join(NonEmpty(Fields(DateSub(LineAt(exp_lines, i + 1)))), <<" ">>),
              Strip(DateGroup(LineAt(exp_lines, i + 1))))

\* the cursor is on a '•' line right after the rule opened a job, and the
\* text after the marker is longer than 10 characters
OnBulletAfterPipeHeader ==
  /\ rule = "format1b"
  /\ i < Len(exp_lines)
  /\ StartsWith(LineAt(exp_lines, i), <<Bullet>>)
  /\ Len(StripMarker(LineAt(exp_lines, i))) > 10

\* the iteration appends the text after the marker to the open job
BulletAppended ==
  /\ i' = i + 1
  /\ jobs' = jobs
  /\ current_job' =
       [current_job EXCEPT !.bullets =
          Append(@, StripMarker(LineAt(exp_lines, i)))]

\* C3 as stated: on a '|' line without a date whose next line has a date
\* range, one job is opened with company and title from the line, dates and
\* location from the next line, which is consumed; every following '•' line
\* with more than 10 characters of text becomes a bullet of that job.
C3_Original ==
  [][/\ OnPipeHeader => PipeHeaderOpened
     /\ OnBulletAfterPipeHeader => BulletAppended]_vars

\* C3 amended: the same, for the '•' lines that the em-dash header rule
\* (tried first) does not claim, i.e. that do not hold both an em dash and
\* a date range.
C3_PipeHeaderRule ==
  [][/\ OnPipeHeader => PipeHeaderOpened
     /\ (/\ OnBulletAfterPipeHeader
         /\ ~(/\ Contains(LineAt(exp_lines, i), <<EmDash>>)
              /\ HasDate(LineAt(exp_lines, i))))
        => BulletAppended]_vars

\* the example of the specification: Acme Corp | Senior Engineer, with its
\* dates, location and one bullet
C3_Witness ==
  /\ rule = "bullet"
  /\ jobs = <<>>
  /\ current_job # None
  /\ current_job.company = SubSeq(LCompanyTitle, 1, 9)
  /\ current_job.title = SubSeq(LCompanyTitle, 13, 27)
  /\ current_job.dates = SubSeq(LDatesLocation, 1, 19)
  /\ current_job.location = SubSeq(LDatesLocation, 23, 32)
  /\ current_job.bullets = <<SubSeq(LBullet, 3, Len(LBullet))>>

(***************************************************************************)
(* Claims about the bullet rules and the cursor, checked under SpecExp      *)
(***************************************************************************)
\* the loop is about to classify the line under the cursor
AtLine == rule # "end" /\ i < Len(exp_lines) /\ LineAt(exp_lines, i) # <<>>

\* the tags of the header rules: 1-4 of the specification, and all of them
HeaderRules14 == {"format1", "format1b", "format2", "title_line"}
HeaderRules == HeaderRules14 \cup {"format3", "format4"}

\* the iteration leaves the closed jobs alone, moves to the next line and
\* gives the open job the bullets bs
BulletsBecome(bs) ==
  /\ i' = i + 1
  /\ jobs' = jobs
  /\ current_job' = [current_job EXCEPT !.bullets = bs]

\* a job is open and the line under the cursor starts with a bullet marker
OnMarkedLine ==
  /\ AtLine
  /\ current_job # None
  /\ IsMarked(LineAt(exp_lines, i))

\* C13: while a job is open, every line that starts with a bullet marker and
\* that no header rule claims has its marker stripped and, when the rest is
\* longer than 10 characters, is appended as one new bullet of the open job,
\* for every marker and every line length.
C13_Original ==
  [][(OnMarkedLine /\ rule' \notin HeaderRules) =>
       BulletsBecome(
         IF Len(StripCid(StripMarker(LineAt(exp_lines, i)))) > 10
           THEN Append(current_job.bullets,
                       StripCid(StripMarker(LineAt(exp_lines, i))))
           ELSE current_job.bullets)]_vars

\* two lines that start with a bullet glyph have become two bullets of the
\* open job
C13_Witness ==
  /\ rule = "bullet"
  /\ current_job # None
  /\ Len(current_job.bullets) = 2
  /\ current_job.bullets[2] = SubSeq(LBullet, 3, Len(LBullet))

\* a job is open and the line under the cursor is the unmarked content line
\* of the claim
OnUnmarkedLine ==
  /\ AtLine
  /\ current_job # None
  /\ ~IsMarked(LineAt(exp_lines, i))
  /\ ~HasDate(LineAt(exp_lines, i))
  /\ ~AnyIn(LineAt(exp_lines, i), SectionHeaderWords)
  /\ ~IsUpper(LineAt(exp_lines, i))
  /\ ~Contains(LineAt(exp_lines, i), <<"|">>)
  /\ Len(LineAt(exp_lines, i)) > 20

\* C14: while a job is open, every unmarked line with no date that no header
\* rule claims, that is no section-header keyword line, is not all-caps, has
\* no '|' and is longer than 20 characters is appended as a new bullet of the
\* open job, also when the job has no bullet yet and the line is shorter than
\* 80 characters.
C14_Original ==
  [][(OnUnmarkedLine /\ rule' \notin HeaderRules) =>
       BulletsBecome(Append(current_job.bullets, LineAt(exp_lines, i)))]_vars

\* an unmarked line that starts with '(' has become the first bullet of the
\* open job
C14_Witness ==
  /\ rule = "unmarked"
  /\ current_job # None
  /\ current_job.bullets = <<LParen>>

\* the open job has a bullet and the line under the cursor is no
\* section-header keyword line
OnLineAfterBullet ==
  /\ AtLine
  /\ current_job # None
  /\ current_job.bullets # <<>>
  /\ ~AnyIn(LineAt(exp_lines, i), SectionHeaderWords)

\* the bullets bs with the text line joined to the last one by one space
JoinedToLast(bs, line) ==
  [bs EXCEPT ![Len(bs)] = bs[Len(bs)] \o <<" ">> \o line]

\* C15: for every line on which none of the header rules 1-4 fires and that
\* is no section-header keyword line, if the open job already has a bullet
\* then the line is appended, joined by a single space, to the job's last
\* bullet and the number of bullets does not change.
C15_Original ==
  [][(OnLineAfterBullet /\ rule' \notin HeaderRules14) =>
       BulletsBecome(JoinedToLast(current_job.bullets,
                                  LineAt(exp_lines, i)))]_vars

\* a short unmarked line has been joined to the one bullet of the open job
C15_Witness ==
  /\ rule = "continuation"
  /\ current_job # None
  /\ current_job.bullets =
       <<SubSeq(LBullet, 3, Len(LBullet)) \o <<" ">> \o LPlain>>

TitleCandidate(prev_line) ==
  /\ prev_line # <<>>
  /\ ~StartsWith(prev_line, <<Bullet>>)
  /\ ~HasDate(prev_line)
  /\ Len(prev_line) < 60
  /\ ~EndsWith(prev_line, <<".">>)
  /\ ~EndsWith(prev_line, <<",">>)

\* the generic header rule fires on the line under the cursor, and the
\* previous line is a title candidate and is exactly the last bullet of the
\* job this closes
OnRetractCase ==
  /\ AtLine
  /\ i > 0
  /\ rule' = "format4"
  /\ TitleCandidate(LineAt(exp_lines, i - 1))
  /\ current_job # None
  /\ current_job.bullets # <<>>
  /\ current_job.bullets[Len(current_job.bullets)] = LineAt(exp_lines, i - 1)

\* C17: in the generic text+date header rule, when the previous line is a
\* title candidate and is exactly the last bullet of the job just closed,
\* that bullet is removed from the closed job and the line becomes the new
\* job's title.
C17_Original ==
  [][OnRetractCase =>
       /\ jobs' = Append(jobs,
                         [current_job EXCEPT !.bullets =
                            SubSeq(@, 1, Len(@) - 1)])
       /\ current_job'.title = LineAt(exp_lines, i - 1)]_vars

\* the generic header rule took the previous line, which was no bullet of a
\* closed job, as the title of the new job
C17_Witness ==
  /\ rule = "format4"
  /\ i = 2
  /\ jobs = <<>>
  /\ current_job # None
  /\ current_job.title = LShortParen
  /\ LineAt(exp_lines, 0) = LShortParen

\* the company indicator tokens
CompanyIndicators ==
  {<<"I", "n", "c", ".">>, <<"L", "L", "C">>, <<"C", "o", "r", "p">>,
   <<"C", "o", "m", "p", "a", "n", "y">>, <<"L", "t", "d">>,
   <<"C", "o", "r", "p", "o", "r", "a", "t", "i", "o", "n">>,
   <<"C", "e", "n", "t", "e", "r">>,
   <<"A", "d", "m", "i", "n", "i", "s", "t", "r", "a", "t", "o", "r", "s">>,
   <<"A", "i", "r", "l", "i", "n", "e", "s">>}

\* position of the first '-' or en dash of s, 0 when there is none
FirstDash(s) == First({q \in 1..Len(s) : s[q] \in {"-", EnDash}})

\* the text before the first dash of s, and the text after it
BeforeDash(s) ==
  IF FirstDash(s) = 0 THEN Strip(s) ELSE Strip(SubSeq(s, 1, FirstDash(s) - 1))

AfterDash(s) ==
  IF FirstDash(s) = 0 THEN <<>> ELSE Strip(From(s, FirstDash(s) + 1))

\* the text of a dated line outside its date range
TextBeforeDate(line) == Strip(RStripSet(Strip(DateSub(line)), {","}))

\* the generic header rule fires on the line under the cursor and the line
\* after it holds a company indicator token
OnIndicatorCase ==
  /\ AtLine
  /\ i + 1 < Len(exp_lines)
  /\ rule' = "format4"
  /\ AnyIn(LineAt(exp_lines, i + 1), CompanyIndicators)

\* C18: in the generic text+date header rule, when the line after the dated
\* line holds a company indicator token, the text before the date becomes
\* the new job's title and that next line supplies the company (and the
\* location after a dash); only otherwise is the text before the date the
\* company.
C18_Original ==
  [][/\ OnIndicatorCase =>
          /\ current_job'.title = TextBeforeDate(LineAt(exp_lines, i))
          /\ current_job'.company = BeforeDash(LineAt(exp_lines, i + 1))
          /\ current_job'.location = AfterDash(LineAt(exp_lines, i + 1))
     /\ (AtLine /\ rule' = "format4" /\ ~OnIndicatorCase) =>
          current_job'.company = TextBeforeDate(LineAt(exp_lines, i))]_vars

\* the generic header rule, with no indicator token on the next line, made
\* the text before the date the company
C18_Witness ==
  /\ rule = "format4"
  /\ i = 1
  /\ Len(exp_lines) = 3
  /\ ~AnyIn(LineAt(exp_lines, 1), CompanyIndicators)
  /\ current_job # None
  /\ current_job.company = SubSeq(LCompanyDates, 1, 4)

\* C19: in the title-line rule, the new job has title = the current line
\* and, when the next line's text with the date removed holds a dash
\* separator, company = the text before the first one and location = the
\* text after it; company is the whole remainder only when there is none.
\* (The remainder is taken without a trailing comma, as the code takes it.)
C19_Original ==
  [][(AtLine /\ rule' = "title_line") =>
       /\ i' = i + 2
       /\ current_job'.title = LineAt(exp_lines, i)
       /\ current_job'.company =
            BeforeDash(TextBeforeDate(LineAt(exp_lines, i + 1)))
       /\ current_job'.location =
            AfterDash(TextBeforeDate(LineAt(exp_lines, i + 1)))]_vars

\* the title-line rule on a next line without a separator: the whole
\* remainder is the company
C19_Witness ==
  /\ rule = "title_line"
  /\ current_job # None
  /\ current_job.title = LCompany
  /\ current_job.company = SubSeq(LCompanyDates, 1, 4)
  /\ current_job.location = <<>>

\* the line after the cursor can be taken as a title: it is there, starts
\* with no bullet glyph and has no date (line 448 tests the date with the
\* case of the pattern, line 494 without)
NextIsPlainCased ==
  /\ i + 1 < Len(exp_lines)
  /\ ~StartsWith(LineAt(exp_lines, i + 1), <<Bullet>>)
  /\ ~HasDateCased(LineAt(exp_lines, i + 1))

NextIsPlain ==
  /\ i + 1 < Len(exp_lines)
  /\ ~StartsWith(LineAt(exp_lines, i + 1), <<Bullet>>)
  /\ ~HasDate(LineAt(exp_lines, i + 1))

\* the rule that fires takes a field of the new job from the lookahead line
LookaheadUsed ==
  \/ rule' \in {"format1b", "format2", "title_line"}
  \/ rule' = "format3" /\ NextIsPlainCased
  \/ /\ rule' = "format4"
     /\ NextIsPlain
     /\ ~(/\ i > 0
          /\ TitleCandidate(LineAt(exp_lines, i - 1))
          /\ ~(/\ current_job # None
               /\ current_job.bullets # <<>>
               /\ Contains(current_job.bullets[Len(current_job.bullets)],
                           LineAt(exp_lines, i - 1))))

\* C20: in every iteration, if the rule that fires takes a field of the new
\* job from the lookahead line the cursor advances by exactly 2, so that
\* line is never a current line later; otherwise it advances by exactly 1,
\* so no line is skipped without being classified.
C20_ConsumeAhead ==
  [][(rule # "end" /\ i < Len(exp_lines)) =>
       i' = (IF LookaheadUsed THEN i + 2 ELSE i + 1)]_vars

\* the two lines of a "Company | Title" header were consumed and the third
\* line is the next to be classified
C20_Witness ==
  /\ rule = "format1b"
  /\ i = 2
  /\ Len(exp_lines) = 3

\* the header fields of every job of js, in order
Headers(js) == [k \in 1..Len(js) |-> [js[k] EXCEPT !.bullets = <<>>]]

\* the jobs the loop holds: the closed ones, then the open one until the
\* final append of line 532 has put it in the list
HeldJobs ==
  IF rule # "end" /\ current_job # None
    THEN Append(jobs, current_job) ELSE jobs

\* C22: every job opened by a header rule is in the list exactly once, in
\* the order of opening: while the loop runs the closed jobs followed by the
\* open one are the jobs opened so far, and the returned list has one entry
\* per header firing.
C22_OpenedOnceInOrder == Headers(HeldJobs) = opened

\* two headers fired, with a bullet in between, and the loop has returned
C22_Witness ==
  /\ rule = "end"
  /\ Len(opened) = 2
  /\ Len(jobs) = 2
  /\ jobs[1].bullets # <<>>

\* the blank lines of a zone taken out
NonBlank(lines) == SelectSeq(lines, LAMBDA l : Strip(l) # <<>>)

\* C23: blank lines put between the lines of the zone do not change the
\* jobs produced: the result is the result for the zone without them.
C23_Original == rule = "end" => jobs = ParseExperience(NonBlank(exp_lines))

\* a zone with a blank line inside for which a job came out, the same as
\* without the blank line
C23_Witness ==
  /\ rule = "end"
  /\ Len(exp_lines) = 3
  /\ Strip(exp_lines[2]) = <<>>
  /\ jobs # <<>>
  /\ jobs = ParseExperience(NonBlank(exp_lines))

\* C27: no line gives header fields to two jobs: the lines used by the
\* header rules, as current line, consumed lookahead or lookback, are all
\* different.
C27_Original ==
  \A j, k \in 1..Len(header_lines) :
    j # k => header_lines[j] # header_lines[k]

\* a lookahead line consumed as the title of a job, two jobs opened
C27_Witness ==
  /\ rule = "end"
  /\ Len(opened) = 2
  /\ Len(header_lines) = 3

\* C28: a line that starts with a bullet marker opens no job and gives no
\* header field to one.
C28_Original ==
  \A k \in 1..Len(header_lines) :
    LET l == LineAt(exp_lines, header_lines[k])
    IN  l = <<>> \/ l[1] \notin {Bullet, "-", "*"}

\* a bullet line passed by the loop while a job is open, being no header
C28_Witness ==
  /\ rule = "bullet"
  /\ Len(opened) = 1
  /\ Len(header_lines) = 2

\* C30: every job has a non-empty dates field.
C30_Original == \A k \in 1..Len(HeldJobs) : HeldJobs[k].dates # <<>>

\* a job opened by each of two header rules, both with their date range
C30_Witness ==
  /\ rule = "end"
  /\ Len(jobs) = 2
  /\ \A k \in 1..2 : HasDate(jobs[k].dates)

(***************************************************************************)
(* SpecValidate: validate_and_clean_data applied, twice, to every record   *)
(* built from the pools below                                              *)
(***************************************************************************)
MaxJobs == 2
MaxEdu == 1
MaxRuns == 2

Filler(n) == [k \in 1..n |-> "z"]

Job(company, title, bullet) ==
  [company |-> company, title |-> title, location |-> <<>>, dates |-> <<>>,
   project_details |-> <<>>, bullets |-> <<bullet>>]

\* jobs with the same company and title and different bullets, a job without
\* company, and two jobs of different companies whose keys are both "A|T|X"
JobPool ==
  {Job(<<"A">>, <<"T">>, <<"b", "1">>),
   Job(<<"A">>, <<"T">>, <<"b", "2">>),
   Job(<<>>, <<"T">>, <<"b", "3">>),
   Job(<<"A", "|", "T">>, <<"X">>, <<"b", "4">>),
   Job(<<"A">>, <<"T", "|", "X">>, <<"b", "5">>)}

EduPool ==
  {[degree |-> <<"M", "S", "c">>, school |-> <<"U">>, year |-> <<>>],
   [degree |-> <<>>, school |-> <<"U">>, year |-> <<>>]}

FourSkills == <<"S", "A", "P", ",", " ", "E", "x", "c", "e", "l", ",", " ", "O", "r", "a", "c", "l", "e", " ", "a", "n", "d", " ", "P", "r", "i", "m", "a", "v", "e", "r", "a">>

ThreeSkills == <<"S", "A", "P", ",", " ", "E", "x", "c", "e", "l", " ", "a", "n", "d", " ", "O", "r", "a", "c", "l", "e", ".">>

TwoSkills == <<" ", "w", "i", "t", "h", " ", "s", "a", "p", " ", "a", "n", "d", " ", "e", "x", "c", "e", "l">>

\* summaries around the thresholds of lines 581 and 587: 3 and 4 keyword
\* hits, paragraphs of 100 and 101 characters, with 2 and 3 keywords,
\* bulleted and indented paragraphs
SummaryPool ==
  {<<>>,
   FourSkills,
   ThreeSkills \o <<NL>> \o Filler(101),
   FourSkills \o <<NL>> \o Filler(101),
   FourSkills \o <<NL>> \o Filler(100),
   FourSkills \o <<NL, " ">> \o Filler(101) \o <<" ", NL>> \o Filler(102),
   FourSkills \o <<NL, Bullet>> \o Filler(101) \o <<NL>> \o Filler(102),
   FourSkills \o Filler(101) \o <<NL>> \o Filler(80) \o TwoSkills,
   FourSkills \o <<NL>> \o Filler(101) \o ThreeSkills
     \o <<NL>> \o Filler(101) \o TwoSkills}

SkillsPool ==
  {[is_list |-> FALSE, items |-> <<<<>>>>],
   [is_list |-> FALSE, items |-> <<<<"a", "b">>>>],
   [is_list |-> TRUE, items |-> <<<<"a">>, <<"b">>>>],
   [is_list |-> TRUE, items |-> <<>>]}

SeqsFrom0(S, n) == UNION {[1..k -> S] : k \in 0..n}

Record(summary, experience, education, skills) ==
  [name |-> <<"N">>,
   contact |-> [location |-> <<>>, phone |-> <<>>, email |-> <<>>],
   summary |-> summary,
   experience |-> experience,
   education |-> education,
   certifications |-> <<>>,
   skills |-> skills]

InitValidate ==
  /\ \E e \in SeqsFrom0(JobPool, MaxJobs), u \in SeqsFrom0(EduPool, MaxEdu),
        s \in SummaryPool, k \in SkillsPool :
       data_in = Record(s, e, u, k)
  /\ data = data_in
  /\ runs = 0
  /\ IdleExp
  /\ IdleLlm
  /\ IdleDate
  /\ IdleExtract
  /\ IdleFormat
  /\ IdleLater

\* one call of validate_and_clean_data on the record
Validate ==
  /\ data # None
  /\ runs < MaxRuns
  /\ data' = validate_and_clean_data(data)
  /\ runs' = runs + 1
  /\ UNCHANGED <<data_in, notValidate>>

NextValidate == Validate

SpecValidate == InitValidate /\ [][NextValidate]_vars

(***************************************************************************)
(* Claims about validate_and_clean_data, checked under SpecValidate        *)
(***************************************************************************)
\* the positions of exps that hold the first entry of a key among the
\* entries with a company
FirstOfKey(exps) ==
  {k \in 1..Len(exps) :
     /\ exps[k].company # <<>>
     /\ \A j \in 1..(k - 1) :
          exps[j].company = <<>>
            \/ exps[j].company \o <<"|">> \o exps[j].title
                 # exps[k].company \o <<"|">> \o exps[k].title}

\* the subsequence of exps at the positions K, in order
SubsequenceAt(exps, K) ==
  [n \in 1..Cardinality(K) |->
     exps[CHOOSE k \in K : Cardinality({j \in K : j < k}) = n - 1]]

\* C4: after one run of validate_and_clean_data the experience list is the
\* subsequence of the input list made of the first entry of each
\* company|title key among the entries with a non-empty company, each entry
\* unchanged (bullets included); later entries of a key and entries without
\* company are dropped.
C4_FirstOccurrenceWins ==
  runs = 1 =>
    data.experience
      = SubsequenceAt(data_in.experience, FirstOfKey(data_in.experience))

\* a run that dropped a later entry of a key and kept the first one's bullets,
\* and dropped an entry without company
C4_Witness ==
  /\ runs = 1
  /\ Len(data_in.experience) = 2
  /\ data_in.experience[1].company = <<"A">>
  /\ data_in.experience[2].company = <<"A">>
  /\ data_in.experience[1].title = data_in.experience[2].title
  /\ data_in.experience[1].bullets # data_in.experience[2].bullets
  /\ data.experience = <<data_in.experience[1]>>

\* C5: validate_and_clean_data is idempotent: a run on a record that has been
\* validated already changes no field of it.
C5_Idempotent == [][runs >= 1 => data' = data]_vars

\* a second run on a record whose first run changed experience, summary,
\* skills and education
C5_Witness ==
  /\ runs = 2
  /\ data.experience # data_in.experience
  /\ data.summary # data_in.summary
  /\ data.skills # data_in.skills
  /\ data.education # data_in.education

\* the stripped lines of a summary that are not bulleted, longer than 100
\* characters and hold fewer than 3 skill keywords, by position
Qualifying(summary) ==
  LET parts == SplitChar(summary, NL)
  IN  {k \in 1..Len(parts) :
         /\ Strip(parts[k]) # <<>>
         /\ Strip(parts[k])[1] # Bullet
         /\ Len(Strip(parts[k])) > 100
         /\ skill_count_in_text(Strip(parts[k])) < 3}

\* what C9 says the summary becomes
ExpectedSummary(summary) ==
  IF skill_count_in_text(summary) > 3 /\ Qualifying(summary) # {}
    THEN LET k == CHOOSE q \in Qualifying(summary) :
                    \A r \in Qualifying(summary) : q <= r
         IN  Strip(SplitChar(summary, NL)[k])
    ELSE summary

SamePair(e, f) == e.company = f.company /\ e.title = f.title

\* C29: an experience entry with a non-empty company is dropped only if an
\* earlier kept entry has the same company and the same title: after a run
\* every such entry of the input has an entry with its company and its title
\* in the output, also when a field holds the '|' character.
C29_Original ==
  runs = 1 =>
    \A k \in 1..Len(data_in.experience) :
      data_in.experience[k].company # <<>> =>
        \E j \in 1..Len(data.experience) :
          SamePair(data.experience[j], data_in.experience[k])

\* a run that kept two entries of different companies, one of them with a
\* '|' in its company
C29_Witness ==
  /\ runs = 1
  /\ Len(data_in.experience) = 2
  /\ data_in.experience[1].company = <<"A", "|", "T">>
  /\ data_in.experience[2].company = <<"A">>
  /\ data_in.experience[2].title = <<"T">>
  /\ data.experience = data_in.experience

(***************************************************************************)
(* parse_resume_with_claude (lines 614-732).  The text of the LLM's answer *)
(* is a sequence of JSON tokens: the punctuation { } [ ] and the comma, a  *)
(* key with its colon ("name":), a string literal of at most one           *)
(* character, and "prose" for a run of text that is no JSON.  No string of *)
(* the answers below holds a brace, so str.find and str.rfind see the      *)
(* braces that are tokens.                                                 *)
(***************************************************************************)
Tok(t, v) == [t |-> t, v |-> v]
LB == Tok("{", "")
RB == Tok("}", "")
LK == Tok("[", "")
RK == Tok("]", "")
Comma == Tok(",", "")
Key(name) == Tok("key", name)
Str(c) == Tok("str", c)
Prose == Tok("prose", "")

\* the value of a string literal
StrChars(c) == IF c = "" THEN <<>> ELSE <<c>>

\* content.find('{') and content.rfind('}'), 0-based, -1 when absent
FindLB(content) ==
  First({q \in 1..Len(content) : content[q].t = "{"}) - 1

RFindRB(content) ==
  IF \E q \in 1..Len(content) : content[q].t = "}"
    THEN (CHOOSE q \in 1..Len(content) :
            /\ content[q].t = "}"
            /\ \A r \in (q + 1)..Len(content) : content[r].t # "}") - 1
    ELSE -1

\* lines 715-718
JsonSpan(content) ==
  LET json_start == FindLB(content)
      json_end == RFindRB(content) + 1
  IN  IF json_start # -1 /\ json_end > json_start
        THEN SubSeq(content, json_start + 1, json_end)
        ELSE content

\* json.loads (line 720): a value is a tree [kind, val], kind "string" (val
\* its characters), "array" (val its elements) or "object" (val a function
\* from its keys); NoTree is a text that is no JSON value
NoTree == [kind |-> "none", val |-> <<>>]
Tree(kind, val) == [kind |-> kind, val |-> val]

\* how many brackets are open after the tokens a..q of c
Depth(c, a, q) ==
  Cardinality({r \in a..q : c[r].t \in {"{", "["}})
    - Cardinality({r \in a..q : c[r].t \in {"}", "]"}})

\* the tokens a..b are one bracket pair: the bracket opened at a closes at b
Encloses(c, a, b) ==
  /\ Depth(c, a, b) = 0
  /\ \A q \in a..(b - 1) : Depth(c, a, q) > 0

\* the commas of a..b that are inside no bracket of a..b
Commas(c, a, b) == {q \in a..b : c[q].t = "," /\ Depth(c, a, q) = 0}

\* the spans [from, to] of a..b between the commas K, in order
PiecesAt(K, a, b) ==
  [n \in 1..(Cardinality(K) + 1) |->
     [from |-> IF n = 1 THEN a
               ELSE 1 + (CHOOSE k \in K : Cardinality({j \in K : j < k}) = n - 2),
      to |-> IF n = Cardinality(K) + 1 THEN b
             ELSE (CHOOSE k \in K : Cardinality({j \in K : j < k}) = n - 1) - 1]]

Pieces(c, a, b) == Bind(Commas(c, a, b), LAMBDA K : PiecesAt(K, a, b))

\* the object with the members ps of c, whose values are vals; a later key
\* replaces an earlier equal one
ObjectOf(c, ps, vals) ==
  IF \A n \in DOMAIN ps : c[ps[n].from].t = "key" /\ vals[n].kind # "none"
    THEN Tree("object",
              [k \in {c[ps[n].from].v : n \in DOMAIN ps} |->
                 vals[CHOOSE n \in DOMAIN ps :
                        /\ c[ps[n].from].v = k
                        /\ \A o \in DOMAIN ps : c[ps[o].from].v = k => o <= n]])
    ELSE NoTree

\* the array with the elements vals
ArrayOf(vals) ==
  IF \A n \in DOMAIN vals : vals[n].kind # "none" THEN Tree("array", vals)
  ELSE NoTree

\* the value that the tokens a..b of c spell
RECURSIVE ParseSpan(_, _, _)
ParseSpan(c, a, b) ==
  IF a > b THEN NoTree
  ELSE IF a = b
    THEN IF c[a].t = "str" THEN Tree("string", StrChars(c[a].v)) ELSE NoTree
  ELSE IF c[a].t = "{" /\ c[b].t = "}" /\ Encloses(c, a, b)
    THEN IF b = a + 1 THEN Tree("object", <<>>)
         ELSE Bind(Pieces(c, a + 1, b - 1), LAMBDA ps :
                Bind([n \in DOMAIN ps |-> ParseSpan(c, ps[n].from + 1, ps[n].to)],
                     LAMBDA vals : ObjectOf(c, ps, vals)))
  ELSE IF c[a].t = "[" /\ c[b].t = "]" /\ Encloses(c, a, b)
    THEN IF b = a + 1 THEN Tree("array", <<>>)
         ELSE Bind(Pieces(c, a + 1, b - 1), LAMBDA ps :
                Bind([n \in DOMAIN ps |-> ParseSpan(c, ps[n].from, ps[n].to)],
                     LAMBDA vals : ArrayOf(vals)))
  ELSE NoTree

\* json.loads(content): [ok, tree]; the whole text must be one value
JsonLoads(content) ==
  Bind(ParseSpan(content, 1, Len(content)),
       LAMBDA tree : [ok |-> tree.kind # "none", tree |-> tree])

\* the decoded value as validate_and_clean_data's model reads it
RECURSIVE ToData(_)
ToData(tree) ==
  IF tree.kind = "string" THEN tree.val
  ELSE IF tree.kind = "array"
    THEN [k \in 1..Len(tree.val) |-> ToData(tree.val[k])]
  ELSE [k \in DOMAIN tree.val |-> ToData(tree.val[k])]

ToSkills(tree) ==
  IF tree.kind = "array"
    THEN [is_list |-> TRUE, items |-> ToData(tree)]
    ELSE [is_list |-> FALSE, items |-> <<ToData(tree)>>]

ToRecord(tree) ==
  [k \in DOMAIN tree.val |->
     IF k = "skills" THEN ToSkills(tree.val[k]) ELSE ToData(tree.val[k])]

\* where validate_and_clean_data raises on a decoded value: data.get on a
\* value that is no dict (line 564), exp.get and edu.get on an element that
\* is no dict (lines 568, 601), summary.lower() on a value that is no str
\* (line 578), ', '.join of a list with an element that is no str (line 594)
ListOfObjects(tree) ==
  /\ tree.kind = "array"
  /\ \A k \in 1..Len(tree.val) : tree.val[k].kind = "object"

ValidateRaises(tree) ==
  \/ tree.kind # "object"
  \/ /\ tree.kind = "object"
     /\ \/ /\ "experience" \in DOMAIN tree.val
           /\ tree.val["experience"].val # <<>>
           /\ ~ListOfObjects(tree.val["experience"])
        \/ /\ "summary" \in DOMAIN tree.val
           /\ tree.val["summary"].val # <<>>
           /\ tree.val["summary"].kind # "string"
        \/ /\ "skills" \in DOMAIN tree.val
           /\ tree.val["skills"].kind = "array"
           /\ \E k \in 1..Len(tree.val["skills"].val) :
                tree.val["skills"].val[k].kind # "string"
        \/ /\ "education" \in DOMAIN tree.val
           /\ tree.val["education"].val # <<>>
           /\ ~ListOfObjects(tree.val["education"])

\* what requests.post returned: status_code, and what response.json() gives:
\* body "html" is no JSON (response.json() raises), "error" is a JSON object
\* without 'content' (KeyError at line 712), "message" has content[0].text
Response(status, body, content) ==
  [status_code |-> status, body |-> body, content |-> content]

\* lines 711-725: [returned, error] of the code under "status_code == 200";
\* an exception leaves returned None
AfterPost(resp) ==
  IF resp.body = "html"
    THEN [returned |-> None, error |-> "JSONDecodeError"]
  ELSE IF resp.body = "error"
    THEN [returned |-> None, error |-> "KeyError"]
  ELSE Bind(JsonLoads(JsonSpan(resp.content)), LAMBDA parsed_data :
         IF ~parsed_data.ok
           THEN [returned |-> None, error |-> "JSONDecodeError"]
         ELSE IF ValidateRaises(parsed_data.tree)
           THEN [returned |-> None, error |-> "AttributeError"]
         ELSE [returned |-> validate_and_clean_data(ToRecord(parsed_data.tree)),
               error |-> "none"])

\* line 730 as "except ValueError": only a decoding error is caught
CaughtValueError(err) == err = "JSONDecodeError"

\* line 730: "except Exception" catches each of the errors above
Caught(err) ==
  err \in {"ConnectionError", "JSONDecodeError", "KeyError", "AttributeError"}

\* the except clause as a retry: the request is sent again
OnCaughtRetry == "start"

\* lines 731-732: where the except clause goes, to the one call of
\* simple_parse_resume
OnCaught == "fallback"

(***************************************************************************)
(* Spec: one call of parse_resume_with_claude, for every text, key and     *)
(* answer of the pools below                                               *)
(***************************************************************************)
MaxTextLines == 2

\* 'EXPERIENCE'
THeader == <<"E", "X", "P", "E", "R", "I", "E", "N", "C", "E">>

\* 'Acme 2019 - 2020'
TCompanyDates == <<"A", "c", "m", "e", " ", "2", "0", "1", "9", " ", "-", " ", "2", "0", "2", "0">>

\* '2019 - 2020'
TDates == <<"2", "0", "1", "9", " ", "-", " ", "2", "0", "2", "0">>

\* 'Acme | Dev'
TCompanyTitle == <<"A", "c", "m", "e", " ", "|", " ", "D", "e", "v">>

TextLinePool == {TCompanyDates, TDates, TCompanyTitle}

\* the texts: the header line and up to MaxTextLines lines under it
TextPool ==
  {Join(<<THeader>> \o body, <<NL>>) :
     body \in SeqsFrom0(TextLinePool, MaxTextLines)}

KeyPool == {<<>>, <<"s", "k">>}

\* {"company": c, "title": "T"}
JobTokens(c) ==
  <<LB, Key("company"), Str(c), Comma, Key("title"), Str("T"), RB>>

\* {"name": "N"}
NameObject == <<LB, Key("name"), Str("N"), RB>>

\* a record of the seven fields, with two jobs of the same company and title
\* and a job without company
FullObject ==
  <<LB, Key("name"), Str("N"), Comma,
    Key("contact"), LB, Key("email"), Str(""), RB, Comma,
    Key("summary"), Str("S"), Comma,
    Key("experience"), LK>>
    \o JobTokens("A") \o <<Comma>> \o JobTokens("A") \o <<Comma>>
    \o JobTokens("")
    \o <<RK, Comma,
         Key("education"), LK, RK, Comma,
         Key("certifications"), LK, RK, Comma,
         Key("skills"), LK, Str("a"), Comma, Str("b"), RK, RB>>

ContentPool ==
  {FullObject,
   <<Prose>> \o FullObject \o <<Prose>>,
   NameObject,
   NameObject \o <<Prose>>,
   NameObject \o <<Prose, LB, Prose, RB>>,
   FullObject \o <<Prose, LB, Prose, RB>>,
   NameObject \o NameObject,
   <<LB, RB>>,
   <<Prose>>,
   <<>>,
   <<LK, Str("A"), RK>>,
   <<LB, Key("experience"), Str("A"), RB>>,
   <<LB, Key("summary"), LK, Str("A"), RK, RB>>,
   <<LB, Key("name"), Str("N")>>,
   <<RB, Prose, LB>>}

StatusPool == {200, 401, 500}

ResponsePool ==
  {Response(st, "message", c) : st \in StatusPool, c \in ContentPool}
    \cup {Response(st, b, <<>>) : st \in StatusPool, b \in {"html", "error"}}

Init ==
  /\ pc = "start"
  /\ resume_text \in TextPool
  /\ api_key \in KeyPool
  /\ response = None
  /\ returned = None
  /\ error = "none"
  /\ propagated = FALSE
  /\ posts = 0
  /\ parses = 0
  /\ IdleExp
  /\ IdleValidate
  /\ IdleDate
  /\ IdleExtract
  /\ IdleFormat
  /\ IdleLater

\* lines 618-621: no key, the call goes to the simple parser
NoKey ==
  /\ pc = "start"
  /\ api_key = <<>>
  /\ pc' = "fallback"
  /\ UNCHANGED <<resume_text, api_key, response, returned, error, propagated,
                 posts, parses, notLlm>>

\* lines 693-708: requests.post returns a response
PostReturns ==
  /\ pc = "start"
  /\ api_key # <<>>
  /\ response' \in ResponsePool
  /\ posts' = posts + 1
  /\ pc' = "posted"
  /\ UNCHANGED <<resume_text, api_key, returned, error, propagated, parses,
                 notLlm>>

\* lines 693-708: requests.post raises
PostRaises ==
  /\ pc = "start"
  /\ api_key # <<>>
  /\ error' = "ConnectionError"
  /\ posts' = posts + 1
  /\ pc' = "except"
  /\ UNCHANGED <<resume_text, api_key, response, returned, propagated, parses,
                 notLlm>>

\* lines 710-725: status 200, the decoded and validated record is returned
HandleReturns ==
  /\ pc = "posted"
  /\ response.status_code = 200
  /\ \E r \in {AfterPost(response)} :
       /\ r.error = "none"
       /\ returned' = r.returned
  /\ pc' = "done"
  /\ UNCHANGED <<resume_text, api_key, response, error, propagated, posts,
                 parses, notLlm>>

\* lines 710-723: status 200, the code raises before it returns
HandleRaises ==
  /\ pc = "posted"
  /\ response.status_code = 200
  /\ \E r \in {AfterPost(response)} :
       /\ r.error # "none"
       /\ error' = r.error
  /\ pc' = "except"
  /\ UNCHANGED <<resume_text, api_key, response, returned, propagated, posts,
                 parses, notLlm>>

\* lines 726-728: another status, the call goes to the simple parser
HandleErrorStatus ==
  /\ pc = "posted"
  /\ response.status_code # 200
  /\ pc' = "fallback"
  /\ UNCHANGED <<resume_text, api_key, response, returned, error, propagated,
                 posts, parses, notLlm>>

\* lines 730-732: the except clause; an exception it does not catch leaves
\* the call
Except ==
  /\ pc = "except"
  /\ IF Caught(error)
       THEN pc' = OnCaught /\ propagated' = FALSE
       ELSE pc' = "done" /\ propagated' = TRUE
  /\ UNCHANGED <<resume_text, api_key, response, returned, error, posts,
                 parses, notLlm>>

\* lines 621, 728 and 732: return simple_parse_resume(resume_text)
Fallback ==
  /\ pc = "fallback"
  /\ returned' = simple_parse_resume(resume_text)
  /\ parses' = parses + 1
  /\ pc' = "done"
  /\ UNCHANGED <<resume_text, api_key, response, error, propagated, posts,
                 notLlm>>

Next ==
  \/ NoKey
  \/ PostReturns
  \/ PostRaises
  \/ HandleReturns
  \/ HandleRaises
  \/ HandleErrorStatus
  \/ Except
  \/ Fallback

Spec == Init /\ [][Next]_vars

(***************************************************************************)
(* Claims about parse_resume_with_claude, checked under Spec               *)
(***************************************************************************)
\* the call returned a record
Returned == pc = "done" /\ ~propagated

\* the record came from the LLM path (line 725)
ReturnedByLlm ==
  /\ Returned
  /\ response # None
  /\ response.status_code = 200
  /\ error = "none"

\* no two entries of exps share a company|title key and none has an empty
\* company
Deduplicated(exps) ==
  /\ \A k \in 1..Len(exps) : Get(exps[k], "company") # <<>>
  /\ \A j, k \in 1..Len(exps) :
       j < k =>
         Get(exps[j], "company") \o <<"|">> \o Get(exps[j], "title")
           # Get(exps[k], "company") \o <<"|">> \o Get(exps[k], "title")

\* C1: whichever path produced it, the returned record's experience list is
\* deduplicated (no two entries with the same company|title key, no entry
\* with an empty company), so the Validator leaves its length unchanged.
C1_Original ==
  Returned =>
    /\ Deduplicated(Get(returned, "experience"))
    /\ Len(Get(validate_and_clean_data(returned), "experience"))
         = Len(Get(returned, "experience"))

\* the LLM path does return a deduplicated list for an answer that holds
\* duplicates
C1_Witness ==
  /\ ReturnedByLlm
  /\ Len(Get(returned, "experience")) = 1
  /\ Deduplicated(Get(returned, "experience"))

\* the call has met one of the failures C2 names
Failure ==
  \/ api_key = <<>>
  \/ error # "none"
  \/ response # None /\ response.status_code # 200

\* C2: no exception leaves parse_resume_with_claude, and when the key is
\* missing, the status is not 200, the body cannot be decoded or anything
\* raises while the response is handled, the call returns the record of
\* simple_parse_resume on the same text.
C2_NeverSurfaces ==
  /\ ~propagated
  /\ pc = "done" /\ Failure => returned = simple_parse_resume(resume_text)

\* a call whose handling of a 200 response raised outside the JSON decoding
\* and that returned the simple parser's record of a text with a job
C2_Witness ==
  /\ Returned
  /\ error \in {"KeyError", "AttributeError"}
  /\ returned = simple_parse_resume(resume_text)
  /\ returned.experience # <<>>

\* lines 97-105: the fields of the simple parser's record
RecordFields ==
  {"name", "contact", "summary", "experience", "education", "certifications",
   "skills"}

\* C6: a returned record has the seven top-level fields whichever path
\* produced it: an answer whose JSON object has another shape is a failure
\* and the simple parser's record is returned for it.
C6_Original == Returned => DOMAIN returned = RecordFields

\* the LLM path returned a record of the seven fields
C6_Witness == ReturnedByLlm /\ DOMAIN returned = RecordFields

\* where the span that starts at the first '{' of content closes: the first
\* position at which as many '}' as '{' have been read, 0 when there is none
Braces(content, a, b, t) ==
  Cardinality({q \in a..b : content[q].t = t})

FirstBalancedEnd(content) ==
  First({q \in (FindLB(content) + 1)..Len(content) :
           /\ FindLB(content) # -1
           /\ Braces(content, FindLB(content) + 1, q, "{")
                = Braces(content, FindLB(content) + 1, q, "}")})

FirstBalanced(content) ==
  SubSeq(content, FindLB(content) + 1, FirstBalancedEnd(content))

\* a 200 response whose text holds a balanced JSON object that the
\* Validator accepts, followed by further text
ObjectThenText ==
  /\ response # None
  /\ response.status_code = 200
  /\ response.body = "message"
  /\ FirstBalancedEnd(response.content) # 0
  /\ FirstBalancedEnd(response.content) < Len(response.content)
  /\ JsonLoads(FirstBalanced(response.content)).ok
  /\ ~ValidateRaises(JsonLoads(FirstBalanced(response.content)).tree)

\* C7: on a 200 response whose text holds a balanced JSON object followed by
\* further text (further braces included), the record decoded and returned
\* is that first balanced object.
C7_Original ==
  pc = "done" /\ ObjectThenText =>
    returned
      = validate_and_clean_data(
          ToRecord(JsonLoads(FirstBalanced(response.content)).tree))

\* an answer with text before and after its object, without further braces,
\* is decoded as the claim says
C7_Witness ==
  /\ pc = "done"
  /\ ObjectThenText
  /\ response.content[1].t = "prose"
  /\ ReturnedByLlm

\* the LLM path handed back the record of the call (line 725)
LlmPathReturned ==
  /\ response # None
  /\ response.status_code = 200
  /\ error = "none"

\* C12: within one call nothing is retried: the LLM service is requested at
\* most once, the heuristic parser runs at most once, and the heuristic
\* parser runs only when the LLM path did not return a record.
C12_NoRetry ==
  /\ posts <= 1
  /\ parses <= 1
  /\ parses >= 1 => ~LlmPathReturned

\* a call that sent its one request, failed while handling the answer and
\* ran the heuristic parser once
C12_Witness ==
  /\ Returned
  /\ posts = 1
  /\ parses = 1
  /\ error = "JSONDecodeError"
  /\ returned = simple_parse_resume(resume_text)

(***************************************************************************)
(* SpecDate: the date test of one iteration of the experience loop (lines  *)
(* 275-276), for every line made of up to MaxPieces pieces of PiecePool    *)
(***************************************************************************)
MaxPieces == 4

PiecePool ==
  {<<"J", "a", "n", " ">>,
   <<"2", "0", "2", "0">>,
   <<"2", "0">>,
   <<" ", EnDash, " ">>,
   <<" ", "t", "o", " ">>,
   <<"P", "r", "e", "s", "e", "n", "t">>,
   <<"B", "u", "i", "l", "t", " ">>,
   <<" ">>}

InitDate ==
  /\ date_line \in {Cat(ps) : ps \in SeqsFrom0(PiecePool, MaxPieces)}
  /\ has_date = FALSE
  /\ date_pc = "start"
  /\ IdleExp
  /\ IdleValidate
  /\ IdleLlm
  /\ IdleExtract
  /\ IdleFormat
  /\ IdleLater

\* lines 275-276: line = exp_lines[i].strip(); has_date = re.search(...)
TestDate ==
  /\ date_pc = "start"
  /\ has_date' = HasDate(Strip(date_line))
  /\ date_pc' = "tested"
  /\ UNCHANGED <<date_line, notDate>>

NextDate == TestDate

SpecDate == InitDate /\ [][NextDate]_vars

\* a right endpoint at r: a year, Present or Current, or a month and a year
RightEndpoint(s, r) ==
  \/ FourDigits(s, r)
  \/ AtI(s, r, <<"p", "r", "e", "s", "e", "n", "t">>)
  \/ AtI(s, r, <<"c", "u", "r", "r", "e", "n", "t">>)
  \/ /\ MonthAt(s, r, TRUE)
     /\ FourDigits(s, SkipSet(s, MonthWordEnd(s, r, TRUE), Whitespace))

\* s holds a year, then '-', an en dash, an em dash or the word "to", then a
\* right endpoint, with any whitespace around the separator
ExplicitRange(s) ==
  \E p \in 1..Len(s) :
    /\ FourDigits(s, p)
    /\ \E q \in {SkipSet(s, p + 4, Whitespace)} :
         \/ /\ q <= Len(s)
            /\ s[q] \in {"-", EnDash, EmDash}
            /\ RightEndpoint(s, SkipSet(s, q + 1, Whitespace))
         \/ /\ AtI(s, q, <<"t", "o">>)
            /\ RightEndpoint(s, SkipSet(s, q + 2, Whitespace))

\* C8: the date test accepts a line only when it holds two endpoints joined
\* by an explicit separator ('-', an en dash, an em dash or the word "to"),
\* Present and Current allowed on the right: a digit run, a lone year and
\* two years separated by whitespace alone are not accepted.
C8_Original ==
  date_pc = "tested" /\ has_date => ExplicitRange(Strip(date_line))

\* 'Jan 2020 – Present' is accepted, and '2020202020' is not
C8_Witness ==
  /\ date_pc = "tested"
  /\ \/ /\ date_line = <<"J", "a", "n", " ", "2", "0", "2", "0", " ", EnDash, " ", "P", "r", "e", "s", "e", "n", "t">>
        /\ has_date
     \/ /\ date_line = <<"2", "0", "2", "0", "2", "0", "2", "0", "2", "0">>
        /\ ~has_date

(***************************************************************************)
(* SpecExtract: extract_text_from_pdf (lines 44-80) and                    *)
(* extract_text_from_docx (lines 82-90).  A character is itself or, for    *)
(* the ones that cannot be written here, a name: NUL (U+0000), SOH         *)
(* (U+0001), DEL (U+007F), PAD (U+0080).                                   *)
(***************************************************************************)
MaxPages == 2
MaxChars == 2

PAD == "PAD"

\* ord(char), for the characters of this model
Ord(char) ==
  CASE char = NUL -> 0
    [] char = SOH -> 1
    [] char = TAB -> 9
    [] char = NL -> 10
    [] char = " " -> 32
    [] char = "a" -> 97
    [] char = DEL -> 127
    [] char = PAD -> 128

\* what a PDF page can hold, and what a DOCX paragraph can hold (XML 1.0
\* has no U+0000 and no U+0001; a paragraph's text has no line break)
PdfChars == {"a", " ", NL, TAB, NUL, SOH, DEL, PAD}
DocxChars == {"a", " ", TAB, DEL, PAD}

\* the words of line.split(): the maximal runs without whitespace
RECURSIVE Words(_)
Words(line) ==
  LET a == SkipSet(line, 1, Whitespace)
      b == First({q \in a..Len(line) : line[q] \in Whitespace})
  IN  IF a > Len(line) THEN <<>>
      ELSE IF b = 0 THEN <<From(line, a)>>
      ELSE <<SubSeq(line, a, b - 1)>> \o Words(From(line, b))

\* lines 55-62: the lines of a page, each with its whitespace collapsed,
\* the empty ones dropped, joined and ended with '\n'
RECURSIVE CleanedLines(_)
CleanedLines(lines) ==
  IF lines = <<>> THEN <<>>
  ELSE IF Strip(Join(Words(lines[1]), <<" ">>)) # <<>>
    THEN <<Join(Words(lines[1]), <<" ">>)>> \o CleanedLines(Tail(lines))
    ELSE CleanedLines(Tail(lines))

PlumberPage(page_text) ==
  IF page_text # <<>>
    THEN Join(CleanedLines(SplitChar(page_text, NL)), <<NL>>) \o <<NL>>
    ELSE <<>>

\* lines 70-71: a page of the pypdf fallback
PypdfPage(page_text) ==
  IF page_text # <<>> THEN page_text \o <<NL>> ELSE <<>>

\* the text after the pages 1..n, by pdfplumber and by pypdf
RECURSIVE PlumberText(_, _)
PlumberText(pages, n) ==
  IF n = 0 THEN <<>> ELSE PlumberText(pages, n - 1) \o PlumberPage(pages[n])

RECURSIVE PypdfText(_, _)
PypdfText(pages, n) ==
  IF n = 0 THEN <<>> ELSE PypdfText(pages, n - 1) \o PypdfPage(pages[n])

\* line 77: the characters that are kept
Keep(char) ==
  \/ char = NL
  \/ char = TAB
  \/ Ord(char) >= 32 /\ Ord(char) < 127
  \/ Ord(char) > 127

\* lines 75-77: text.replace('\x00', '') and the filter
Sanitize(text) ==
  SelectSeq(SelectSeq(text, LAMBDA char : char # NUL), Keep)

\* lines 44-80.  plumber_fails is 0 when pdfplumber reads every page, and k
\* when it raises at page k, after the pages before k were added;
\* pypdf_fails says whether the fallback raises (before it adds a page)
extract_text_from_pdf(pdf) ==
  Sanitize(
    IF pdf.plumber_fails = 0 THEN PlumberText(pdf.pages, Len(pdf.pages))
    ELSE PlumberText(pdf.pages, pdf.plumber_fails - 1)
           \o (IF pdf.pypdf_fails THEN <<>>
               ELSE PypdfText(pdf.pages, Len(pdf.pages))))

\* lines 82-90.  fails says whether docx.Document raises
extract_text_from_docx(doc) ==
  IF doc.fails THEN <<>> ELSE Join(doc.paragraphs, <<NL>>)

Pdf(pages, plumber_fails, pypdf_fails) ==
  [kind |-> "pdf", pages |-> pages, plumber_fails |-> plumber_fails,
   pypdf_fails |-> pypdf_fails]

Docx(paragraphs, fails) ==
  [kind |-> "docx", paragraphs |-> paragraphs, fails |-> fails]

\* plumber_fails may also be the page after the last: the file is read and
\* closing it raises
PdfPool ==
  {Pdf(pages, k, f) :
     pages \in SeqsFrom0(SeqsFrom0(PdfChars, MaxChars), MaxPages),
     k \in 0..MaxPages, f \in BOOLEAN}

InitExtract ==
  /\ \/ /\ document \in PdfPool
        /\ document.plumber_fails <= Len(document.pages) + 1
        /\ document.plumber_fails = 0 => ~document.pypdf_fails
     \/ document \in {Docx(ps, f) :
                        ps \in SeqsFrom0(SeqsFrom0(DocxChars, MaxChars), MaxPages),
                        f \in BOOLEAN}
  /\ extracted = <<>>
  /\ extract_pc = "start"
  /\ IdleExp
  /\ IdleValidate
  /\ IdleLlm
  /\ IdleDate
  /\ IdleFormat
  /\ IdleLater

ExtractPdf ==
  /\ extract_pc = "start"
  /\ document.kind = "pdf"
  /\ extracted' = extract_text_from_pdf(document)
  /\ extract_pc' = "done"
  /\ UNCHANGED <<document, notExtract>>

ExtractDocx ==
  /\ extract_pc = "start"
  /\ document.kind = "docx"
  /\ extracted' = extract_text_from_docx(document)
  /\ extract_pc' = "done"
  /\ UNCHANGED <<document, notExtract>>

NextExtract == ExtractPdf \/ ExtractDocx

SpecExtract == InitExtract /\ [][NextExtract]_vars

\* a control character that is not printable: U+0000-U+001F, U+007F and
\* U+0080-U+009F
IsControl(char) == Ord(char) < 32 \/ (Ord(char) >= 127 /\ Ord(char) <= 159)

\* neither library could read the file
TotalFailure ==
  \/ /\ document.kind = "pdf"
     /\ document.plumber_fails = 1
     /\ document.pypdf_fails
  \/ /\ document.kind = "docx"
     /\ document.fails

\* C10: for a PDF and for a DOCX, the extracted text holds no null byte and
\* no non-printable control character other than newline and tab, and on
\* total failure the extractor returns the empty string.
C10_Original ==
  extract_pc = "done" =>
    /\ \A k \in 1..Len(extracted) :
         IsControl(extracted[k]) => extracted[k] \in {NL, TAB}
    /\ TotalFailure => extracted = <<>>

\* a PDF whose null byte and U+0001 were removed from the text
C10_Witness ==
  /\ extract_pc = "done"
  /\ document.kind = "pdf"
  /\ \E n \in 1..Len(document.pages) :
       \E k \in 1..Len(document.pages[n]) :
         document.pages[n][k] \in {NUL, SOH}
  /\ \E k \in 1..Len(extracted) : extracted[k] = "a"
  /\ \A k \in 1..Len(extracted) :
       IsControl(extracted[k]) => extracted[k] \in {NL, TAB}

(***************************************************************************)
(* SpecFormat: one call of format_resume (lines 1007-1086), for every file *)
(* of FilePool and every key; the call of parse_resume_with_claude at line *)
(* 1043 runs the actions of that function on the extracted text            *)
(***************************************************************************)
\* input_path.exists(), input_path.suffix.lower(), and what the file holds
File(exists, suffix, doc) == [exists |-> exists, suffix |-> suffix, doc |-> doc]

\* a page or a paragraph of text, of blanks, of a null byte
FormatTexts == {<<"a">>, <<" ">>, <<NUL>>}

FormatPdfs ==
  {Pdf(pages, k, f) :
     pages \in {<<>>} \cup {<<t>> : t \in FormatTexts},
     k \in 0..1, f \in BOOLEAN}

FormatDocxs ==
  {Docx(ps, f) :
     ps \in {<<>>} \cup {<<t>> : t \in FormatTexts \ {<<NUL>>}},
     f \in BOOLEAN}

FilePool ==
  {File(e, ".pdf", d) : e \in BOOLEAN, d \in FormatPdfs}
    \cup {File(e, x, d) : e \in BOOLEAN, x \in {".docx", ".doc"},
                          d \in FormatDocxs}
    \cup {File(e, ".txt", None) : e \in BOOLEAN}

InitFormat ==
  /\ fmt_file \in FilePool
  /\ fmt_file.suffix = ".pdf" =>
       (fmt_file.doc.plumber_fails = 0 => ~fmt_file.doc.pypdf_fails)
  /\ fmt_pc = "start"
  /\ fmt_text = <<>>
  /\ fmt_parsed = None
  /\ fmt_result = "none"
  /\ parser_calls = 0
  /\ docx_runs = 0
  /\ pdf_runs = 0
  /\ pc = "idle"
  /\ resume_text = <<>>
  /\ api_key \in KeyPool
  /\ response = None
  /\ returned = None
  /\ error = "none"
  /\ propagated = FALSE
  /\ posts = 0
  /\ parses = 0
  /\ IdleExp
  /\ IdleValidate
  /\ IdleDate
  /\ IdleExtract
  /\ IdleLater

\* line 1030 as "if not text": only the empty string ends the call
NoTextExact(text) == text = <<>>

\* line 1030: not text.strip()
NoText(text) == Strip(text) = <<>>

\* line 1054: a dict is truthy when it has a key
Truthy(record) == DOMAIN record # {}

\* lines 1012-1014: the file does not exist
FileMissing ==
  /\ fmt_pc = "start"
  /\ ~fmt_file.exists
  /\ fmt_result' = "False"
  /\ fmt_pc' = "done"
  /\ UNCHANGED <<fmt_file, fmt_text, fmt_parsed, parser_calls, docx_runs,
                 pdf_runs, llmVars, notFormat>>

\* lines 1022-1023: a PDF is read
ExtractFromPdf ==
  /\ fmt_pc = "start"
  /\ fmt_file.exists
  /\ fmt_file.suffix = ".pdf"
  /\ fmt_text' = extract_text_from_pdf(fmt_file.doc)
  /\ fmt_pc' = "extracted"
  /\ UNCHANGED <<fmt_file, fmt_parsed, fmt_result, parser_calls, docx_runs,
                 pdf_runs, llmVars, notFormat>>

\* lines 1024-1025: a DOCX or a DOC is read
ExtractFromDocx ==
  /\ fmt_pc = "start"
  /\ fmt_file.exists
  /\ fmt_file.suffix \in {".docx", ".doc"}
  /\ fmt_text' = extract_text_from_docx(fmt_file.doc)
  /\ fmt_pc' = "extracted"
  /\ UNCHANGED <<fmt_file, fmt_parsed, fmt_result, parser_calls, docx_runs,
                 pdf_runs, llmVars, notFormat>>

\* lines 1026-1028: another suffix
Unsupported ==
  /\ fmt_pc = "start"
  /\ fmt_file.exists
  /\ fmt_file.suffix \notin {".pdf", ".docx", ".doc"}
  /\ fmt_result' = "False"
  /\ fmt_pc' = "done"
  /\ UNCHANGED <<fmt_file, fmt_text, fmt_parsed, parser_calls, docx_runs,
                 pdf_runs, llmVars, notFormat>>

\* lines 1030-1032: no text was extracted
ExtractionFailed ==
  /\ fmt_pc = "extracted"
  /\ NoText(fmt_text)
  /\ fmt_result' = "False"
  /\ fmt_pc' = "done"
  /\ UNCHANGED <<fmt_file, fmt_text, fmt_parsed, parser_calls, docx_runs,
                 pdf_runs, llmVars, notFormat>>

\* lines 1041-1043: a PDF and a key, parse_resume_with_claude(text) is called
ParseWithClaude ==
  /\ fmt_pc = "extracted"
  /\ ~NoText(fmt_text)
  /\ fmt_file.suffix = ".pdf"
  /\ api_key # <<>>
  /\ pc' = "start"
  /\ resume_text' = fmt_text
  /\ parser_calls' = parser_calls + 1
  /\ fmt_pc' = "parsing"
  /\ UNCHANGED <<fmt_file, fmt_text, fmt_parsed, fmt_result, docx_runs,
                 pdf_runs, api_key, response, returned, error, propagated,
                 posts, parses, notFormat>>

\* lines 1044-1052: a PDF without a key, or a DOCX: simple_parse_resume(text)
\* is called; its run is the action Fallback
ParseSimple ==
  /\ fmt_pc = "extracted"
  /\ ~NoText(fmt_text)
  /\ ~(fmt_file.suffix = ".pdf" /\ api_key # <<>>)
  /\ pc' = "fallback"
  /\ resume_text' = fmt_text
  /\ parser_calls' = parser_calls + 1
  /\ fmt_pc' = "parsing"
  /\ UNCHANGED <<fmt_file, fmt_text, fmt_parsed, fmt_result, docx_runs,
                 pdf_runs, api_key, response, returned, error, propagated,
                 posts, parses, notFormat>>

\* lines 1043, 1049 and 1052: the parser has returned parsed_data
ParserReturns ==
  /\ fmt_pc = "parsing"
  /\ pc = "done"
  /\ ~propagated
  /\ fmt_parsed' = returned
  /\ fmt_pc' = "parsed"
  /\ UNCHANGED <<fmt_file, fmt_text, fmt_result, parser_calls, docx_runs,
                 pdf_runs, llmVars, notFormat>>

\* lines 1054-1056: the parser returned an empty record
ParseFailed ==
  /\ fmt_pc = "parsed"
  /\ ~Truthy(fmt_parsed)
  /\ fmt_result' = "False"
  /\ fmt_pc' = "done"
  /\ UNCHANGED <<fmt_file, fmt_text, fmt_parsed, parser_calls, docx_runs,
                 pdf_runs, llmVars, notFormat>>

\* lines 1064-1067, 979-982: generate_formatted_docx returns True
GenerateSucceeds ==
  /\ fmt_pc = "parsed"
  /\ Truthy(fmt_parsed)
  /\ docx_runs' = docx_runs + 1
  /\ fmt_pc' = "generated"
  /\ UNCHANGED <<fmt_file, fmt_text, fmt_parsed, fmt_result, parser_calls,
                 pdf_runs, llmVars, notFormat>>

\* lines 1067-1069, 983-986: node fails, generate_formatted_docx returns False
GenerateFails ==
  /\ fmt_pc = "parsed"
  /\ Truthy(fmt_parsed)
  /\ docx_runs' = docx_runs + 1
  /\ fmt_result' = "False"
  /\ fmt_pc' = "done"
  /\ UNCHANGED <<fmt_file, fmt_text, fmt_parsed, parser_calls, pdf_runs,
                 llmVars, notFormat>>

\* lines 1075-1086: convert_to_pdf is called; whether it returns True or
\* False (lines 999-1005), format_resume returns True
ConvertToPdf ==
  /\ fmt_pc = "generated"
  /\ pdf_runs' = pdf_runs + 1
  /\ fmt_result' = "True"
  /\ fmt_pc' = "done"
  /\ UNCHANGED <<fmt_file, fmt_text, fmt_parsed, parser_calls, docx_runs,
                 llmVars, notFormat>>

NextFormat ==
  \/ FileMissing
  \/ ExtractFromPdf
  \/ ExtractFromDocx
  \/ Unsupported
  \/ ExtractionFailed
  \/ ParseWithClaude
  \/ PostReturns
  \/ PostRaises
  \/ HandleReturns
  \/ HandleRaises
  \/ HandleErrorStatus
  \/ Except
  \/ ParseSimple
  \/ Fallback
  \/ ParserReturns
  \/ ParseFailed
  \/ GenerateSucceeds
  \/ GenerateFails
  \/ ConvertToPdf

SpecFormat == InitFormat /\ [][NextFormat]_vars

\* the extractor ran and handed back nothing but whitespace
ExtractedNothing ==
  /\ fmt_pc \in {"extracted", "parsing", "parsed", "generated", "done"}
  /\ fmt_file.exists
  /\ fmt_file.suffix \in {".pdf", ".docx", ".doc"}
  /\ \A k \in 1..Len(fmt_text) : fmt_text[k] \in Whitespace

\* C11: when the extractor returns empty or whitespace-only text, the call
\* ends with a failure result before any parser is invoked: no record is
\* built, no document is generated and no PDF conversion is attempted.
C11_ExtractionFailureIsTerminal ==
  ExtractedNothing =>
    /\ fmt_pc \in {"extracted", "done"}
    /\ fmt_pc = "done" => fmt_result = "False"
    /\ parser_calls = 0
    /\ pc = "idle"
    /\ fmt_parsed = None
    /\ docx_runs = 0
    /\ pdf_runs = 0

\* a PDF whose one page holds only a blank: the extracted text is a newline
\* and the call has ended with False
C11_Witness ==
  /\ ExtractedNothing
  /\ fmt_text = <<NL>>
  /\ fmt_pc = "done"
  /\ fmt_result = "False"
  /\ parser_calls = 0

(***************************************************************************)
(* The education loop of simple_parse_resume (lines 196-239): edu_lines    *)
(* are the stripped non-empty lines of the zone                            *)
(***************************************************************************)
\* line 206
EduCertWords ==
  {<<"p", "m", "p">>,
   <<"s", "a", "f", "e">>,
   <<"s", "c", "r", "u", "m">>,
   <<"c", "e", "r", "t", "i", "f", "i", "e", "d">>,
   <<"c", "e", "r", "t", "i", "f", "i", "c", "a", "t", "i", "o", "n">>}

Institute == <<"I", "n", "s", "t", "i", "t", "u", "t", "e">>
Polytechnic == <<"P", "o", "l", "y", "t", "e", "c", "h", "n", "i", "c">>
School == <<"S", "c", "h", "o", "o", "l">>

\* line 211
SchoolWords == {University, College, Institute, Polytechnic, School}

\* line 228
SchoolWordsAfterDegree == {University, College, Institute, Polytechnic}

\* line 217
DegreeWordsAfterSchool ==
  {<<"M", "a", "s", "t", "e", "r">>,
   <<"B", "a", "c", "h", "e", "l", "o", "r">>,
   <<"M", "S", "c">>,
   <<"B", "S", "c">>,
   <<"M", "B", "A">>,
   <<"H", "N", "D">>,
   <<"M", ".", "S">>,
   <<"B", ".", "S">>,
   <<"P", "h", "D">>,
   <<"D", "i", "p", "l", "o", "m", "a">>}

\* line 222
DegreeWords ==
  {<<"M", "a", "s", "t", "e", "r">>,
   <<"B", "a", "c", "h", "e", "l", "o", "r">>,
   <<"M", "S", "c">>,
   <<"B", "S", "c">>,
   <<"M", "B", "A">>,
   <<"H", "N", "D">>,
   <<"M", ".", "S", ".">>,
   <<"B", ".", "S", ".">>,
   <<"P", "h", "D">>,
   <<"D", "i", "p", "l", "o", "m", "a">>,
   <<"M", ".", "S", "c">>,
   <<"B", ".", "S", "c">>}

\* an entry of data['education']
EduEntry(degree, school) == [degree |-> degree, school |-> school, year |-> <<>>]

\* lines 206-208: a certification line is passed over
SkipCert(st) == [st EXCEPT !.i = st.i + 1, !.rule = "cert_skipped"]

\* lines 211-220: a school line, with the degree on the next line if it holds
\* a degree keyword
SchoolLine(lines, st, line) ==
  LET takes_next ==
        /\ st.i + 1 < Len(lines)
        /\ AnyIn(lines[st.i + 2], DegreeWordsAfterSchool)
  IN  [i |-> IF takes_next THEN st.i + 2 ELSE st.i + 1,
       out |-> Append(st.out,
                      EduEntry(IF takes_next THEN lines[st.i + 2] ELSE <<>>,
                               line)),
       rule |-> "school"]

\* the first dash of re.split(r'\s*[—–-]\s*', degree, 1), 0 when there is none
EduDash(s) == First({q \in 1..Len(s) : s[q] \in {EmDash, EnDash, "-"}})

\* lines 232-236: "Degree — School" on one line
SplitDegree(degree) ==
  IF /\ \/ Contains(degree, <<EmDash>>)
        \/ Contains(degree, <<EnDash>>)
        \/ Contains(degree, <<" ", "-", " ">>)
     /\ EduDash(degree) # 0
    THEN EduEntry(Strip(SubSeq(degree, 1, EduDash(degree) - 1)),
                  Strip(From(degree, EduDash(degree) + 1)))
    ELSE EduEntry(degree, <<>>)

\* lines 222-237: a degree line, with the school on the next line if it holds
\* an institution keyword, or after a dash on the same line
DegreeLine(lines, st, line) ==
  LET takes_next ==
        /\ st.i + 1 < Len(lines)
        /\ AnyIn(lines[st.i + 2], SchoolWordsAfterDegree)
  IN  [i |-> IF takes_next THEN st.i + 2 ELSE st.i + 1,
       out |-> Append(st.out,
                      IF takes_next /\ lines[st.i + 2] # <<>>
                        THEN EduEntry(line, lines[st.i + 2])
                        ELSE SplitDegree(line)),
       rule |-> "degree"]

\* lines 203-238: one iteration of "while i < len(edu_lines)"
EduIter(lines, st) ==
  LET line == lines[st.i + 1]
  IN  IF AnyIn(Lower(line), EduCertWords) THEN SkipCert(st)
      ELSE IF AnyIn(line, SchoolWords) THEN SchoolLine(lines, st, line)
      ELSE IF AnyIn(line, DegreeWords) THEN DegreeLine(lines, st, line)
      ELSE [st EXCEPT !.i = st.i + 1, !.rule = "other"]

MaxEduLines == 3

\* 'BSc Computing'
EDegree ==
  <<"B", "S", "c", " ", "C", "o", "m", "p", "u", "t", "i", "n", "g">>

\* 'Leeds University'
EUniversity ==
  <<"L", "e", "e", "d", "s", " ", "U", "n", "i", "v", "e", "r", "s", "i",
    "t", "y">>

\* 'Harvard Business School'
ESchool ==
  <<"H", "a", "r", "v", "a", "r", "d", " ", "B", "u", "s", "i", "n", "e",
    "s", "s", " ", "S", "c", "h", "o", "o", "l">>

\* 'PMP Certified'
ECert ==
  <<"P", "M", "P", " ", "C", "e", "r", "t", "i", "f", "i", "e", "d">>

\* 'MBA – Leeds'
EDegreeDash ==
  <<"M", "B", "A", " ", EnDash, " ", "L", "e", "e", "d", "s">>

\* 'Graduated 2010'
EOther ==
  <<"G", "r", "a", "d", "u", "a", "t", "e", "d", " ", "2", "0", "1", "0">>

\* 'M.S Physics'
EAbbrev ==
  <<"M", ".", "S", " ", "P", "h", "y", "s", "i", "c", "s">>

EduLinePool ==
  {EDegree, EUniversity, ESchool, ECert,
   EDegreeDash, EOther, EAbbrev}

notEdu ==
  <<expVars, validateVars, llmVars, dateVars, extractVars, formatVars,
    segVars, serveVars>>

\* the six components above when none of them is running
IdleEarlier ==
  /\ IdleExp
  /\ IdleValidate
  /\ IdleLlm
  /\ IdleDate
  /\ IdleExtract
  /\ IdleFormat

EduState == [i |-> edu_i, out |-> edu_out, rule |-> edu_rule]

\* lines 196-202: an education zone was found and split in lines
InitEdu ==
  /\ edu_lines \in SeqsUpTo(EduLinePool, MaxEduLines)
  /\ edu_i = 0
  /\ edu_out = <<>>
  /\ edu_rule = "start"
  /\ IdleEarlier
  /\ IdleSeg
  /\ IdleServe

\* one iteration of the loop
EduStep ==
  /\ edu_rule # "end"
  /\ edu_i < Len(edu_lines)
  /\ \E n \in {EduIter(edu_lines, EduState)} :
       /\ edu_i' = n.i
       /\ edu_out' = n.out
       /\ edu_rule' = n.rule
  /\ UNCHANGED <<edu_lines, notEdu>>

\* line 239: the loop is over
EduFinish ==
  /\ edu_rule # "end"
  /\ edu_i >= Len(edu_lines)
  /\ edu_rule' = "end"
  /\ UNCHANGED <<edu_lines, edu_i, edu_out, notEdu>>

NextEdu == EduStep \/ EduFinish

SpecEdu == InitEdu /\ [][NextEdu]_vars

\* the cursor is on a degree line that holds no institution keyword and no
\* certification word, and the next line holds an institution keyword
OnDegreeThenSchool ==
  /\ edu_rule # "end"
  /\ edu_i + 1 < Len(edu_lines)
  /\ ~AnyIn(Lower(edu_lines[edu_i + 1]), EduCertWords)
  /\ ~AnyIn(edu_lines[edu_i + 1], SchoolWords)
  /\ AnyIn(edu_lines[edu_i + 1], DegreeWords)
  /\ AnyIn(edu_lines[edu_i + 2], SchoolWords)

\* C25: a degree line whose next line holds an institution keyword
\* (University, College, Institute, Polytechnic, School) gives exactly one
\* entry, with the line as degree and the next line as school, and the cursor
\* moves on by 2.
C25_Original ==
  [][OnDegreeThenSchool =>
       /\ edu_out' = Append(edu_out,
                            EduEntry(edu_lines[edu_i + 1], edu_lines[edu_i + 2]))
       /\ edu_i' = edu_i + 2]_vars

\* a degree line and the University line after it have become one entry
C25_Witness ==
  /\ edu_rule = "degree"
  /\ edu_i = 2
  /\ edu_out = <<EduEntry(EDegree, EUniversity)>>

(***************************************************************************)
(* The two loops of simple_parse_resume, each on its own zone              *)
(***************************************************************************)
InitParser == InitExp \/ InitEdu

NextParser == NextExp \/ NextEdu

SpecParser == InitParser /\ [][NextParser]_vars

\* C21: in the education loop and in the experience loop every iteration,
\* whichever branch it takes, moves the cursor forward by 1 or 2 and never
\* past the end of the lines, so that a loop over n lines is over after at
\* most n iterations.
C21_CursorAdvances ==
  [][/\ (rule # "end" /\ i < Len(exp_lines)) =>
          (i' \in {i + 1, i + 2} /\ i' <= Len(exp_lines))
     /\ (edu_rule # "end" /\ edu_i < Len(edu_lines)) =>
          (edu_i' \in {edu_i + 1, edu_i + 2} /\ edu_i' <= Len(edu_lines))]_vars

\* an experience loop that moved by 2 and then by 1 has ended
C21_Witness ==
  /\ rule = "end"
  /\ i = 3
  /\ Len(exp_lines) = 3
  /\ Len(header_lines) = 2
  /\ current_job # None
  /\ current_job.bullets # <<>>

(***************************************************************************)
(* The skills zone of simple_parse_resume (lines 171-188): the patterns of *)
(* skills_patterns are searched in order with DOTALL | IGNORECASE          *)
(***************************************************************************)
COMPETENCIES ==
  <<"C", "O", "M", "P", "E", "T", "E", "N", "C", "I", "E", "S">>
TECHNICAL == <<"T", "E", "C", "H", "N", "I", "C", "A", "L">>
TOOL == <<"T", "O", "O", "L">>
TOOLS == <<"T", "O", "O", "L", "S">>

\* end of TECHNICAL\s+TOOLS? matched at p, 0 when no match
TechnicalToolsEnd(s, p) ==
  LET e == TwoWordsEnd(s, p, TECHNICAL, TOOL)
  IN  IF e = 0 THEN 0
      ELSE IF AtI(s, e, <<"S">>) THEN e + 1
      ELSE e

\* end of the header alternation of skills_patterns[k - 1] matched at p, 0
\* when none of its words is at p
SkillsHeaderEnd(s, p, k) ==
  IF k = 1 /\ TwoWordsEnd(s, p, CORE, COMPETENCIES) # 0
    THEN TwoWordsEnd(s, p, CORE, COMPETENCIES)
  ELSE IF k \in {1, 2} /\ TwoWordsEnd(s, p, CORE, SKILLS) # 0
    THEN TwoWordsEnd(s, p, CORE, SKILLS)
  ELSE IF k \in {1, 2} /\ TechnicalToolsEnd(s, p) # 0
    THEN TechnicalToolsEnd(s, p)
  ELSE IF AtI(s, p, SKILLS) THEN p + Len(SKILLS)
  ELSE IF k \in {1, 2} /\ AtI(s, p, TOOLS) THEN p + Len(TOOLS)
  ELSE 0

\* the word of the lookahead of skills_patterns[k - 1] is at j
SkillsStopWordAt(s, j, k) ==
  IF k = 1
    THEN \/ AtI(s, j, EDUCATION)
         \/ AtI(s, j, CERTIFICATION)
         \/ TwoWordsEnd(s, j, PROFESSIONAL, EXPERIENCE) # 0
         \/ AtI(s, j, EXPERIENCE)
         \/ AtI(s, j, EMPLOYMENT)
  ELSE IF k = 2
    THEN AtI(s, j, EDUCATION) \/ AtI(s, j, CERTIFICATION)
  ELSE At(s, j, <<"$">>)

\* the lookahead of skills_patterns[k - 1] holds at q: \n\s*(?:words), or \Z
\* for the second and the third pattern
SkillsBoundaryAt(s, q, k) ==
  \/ k \in {2, 3} /\ q = Len(s) + 1
  \/ /\ q <= Len(s)
     /\ s[q] = NL
     /\ SkillsStopWordAt(s, SkipSet(s, q + 1, Whitespace), k)

\* the span <<start, end>> of group(1) for a match of skills_patterns[k - 1]
\* that starts at p, <<>> when no match starts at p.  \s*\n+ ends after the
\* last newline of the whitespace that follows the header; when the
\* lookahead holds nowhere after that, the first pattern backtracks to the
\* newline before and takes the last newline as its lookahead
SkillsSpan(s, p, k) ==
  LET h == SkillsHeaderEnd(s, p, k)
      g == IF h = 0 THEN 0 ELSE AfterNewlines(s, h)
      q == IF g = 0 THEN 0
           ELSE First({x \in g..(Len(s) + 1) : SkillsBoundaryAt(s, x, k)})
      w == SkipSet(s, h, Whitespace)
      nls == {x \in h..(w - 1) : s[x] = NL}
  IN  IF g = 0 THEN <<>>
      ELSE IF q # 0 THEN <<g, q>>
      ELSE IF Cardinality(nls) >= 2 /\ SkillsStopWordAt(s, w, k)
        THEN <<(CHOOSE x \in nls : Cardinality({y \in nls : y > x}) = 1) + 1,
               g - 1>>
      ELSE <<>>

\* re.search(skills_patterns[k - 1], text, re.DOTALL | re.IGNORECASE): the
\* match found, and its group(1)
SkillsMatch(s, k) ==
  LET m == First({p \in 1..Len(s) : SkillsSpan(s, p, k) # <<>>})
  IN  IF m = 0 THEN [found |-> FALSE, group |-> <<>>]
      ELSE [found |-> TRUE,
            group |-> SubSeq(s, SkillsSpan(s, m, k)[1],
                             SkillsSpan(s, m, k)[2] - 1)]

\* line 182: re.sub(r'[•\-\*]\s*', '', t)
RECURSIVE DropMarkers(_, _)
DropMarkers(t, p) ==
  IF p > Len(t) THEN <<>>
  ELSE IF t[p] \in {Bullet, "-", "*"}
    THEN DropMarkers(t, SkipSet(t, p + 1, Whitespace))
  ELSE <<t[p]>> \o DropMarkers(t, p + 1)

\* line 183: re.sub(r'\s*\n\s*', ', ', t)
RECURSIVE NewlinesToCommas(_, _)
NewlinesToCommas(t, p) ==
  IF p > Len(t) THEN <<>>
  ELSE IF /\ t[p] \in Whitespace
          /\ \E x \in p..(SkipSet(t, p, Whitespace) - 1) : t[x] = NL
    THEN <<",", " ">> \o NewlinesToCommas(t, SkipSet(t, p, Whitespace))
  ELSE <<t[p]>> \o NewlinesToCommas(t, p + 1)

\* line 184: re.sub(r'\s+', ' ', t)
RECURSIVE CollapseSpaces(_, _)
CollapseSpaces(t, p) ==
  IF p > Len(t) THEN <<>>
  ELSE IF t[p] \in Whitespace
    THEN <<" ">> \o CollapseSpaces(t, SkipSet(t, p, Whitespace))
  ELSE <<t[p]>> \o CollapseSpaces(t, p + 1)

\* line 185: re.sub(r',\s*,', ',', t)
RECURSIVE DoubleCommas(_, _)
DoubleCommas(t, p) ==
  IF p > Len(t) THEN <<>>
  ELSE IF /\ t[p] = ","
          /\ SkipSet(t, p + 1, Whitespace) <= Len(t)
          /\ t[SkipSet(t, p + 1, Whitespace)] = ","
    THEN <<",">> \o DoubleCommas(t, SkipSet(t, p + 1, Whitespace) + 1)
  ELSE <<t[p]>> \o DoubleCommas(t, p + 1)

\* lines 180-185: skills_text of a match
SkillsText(group) ==
  Bind(DropMarkers(Strip(group), 1), LAMBDA a :
    Bind(NewlinesToCommas(a, 1), LAMBDA b :
      Bind(CollapseSpaces(b, 1), LAMBDA c : DoubleCommas(c, 1))))

\* line 186: len(skills_text) > 10
LongEnough(skills_text) == Len(skills_text) > 10

MaxSegLines == 3

\* 'SKILLS'
SHeader ==
  <<"S", "K", "I", "L", "L", "S">>

\* 'Core Competencies'
SCore ==
  <<"C", "o", "r", "e", " ", "C", "o", "m", "p", "e", "t", "e", "n", "c",
    "i", "e", "s">>

\* 'Technical Tools'
STools ==
  <<"T", "e", "c", "h", "n", "i", "c", "a", "l", " ", "T", "o", "o", "l",
    "s">>

\* 'EDUCATION'
SEducation ==
  <<"E", "D", "U", "C", "A", "T", "I", "O", "N">>

\* 'SAP, Excel'
STen ==
  <<"S", "A", "P", ",", " ", "E", "x", "c", "e", "l">>

\* 'Python, SQL, Excel'
SLong ==
  <<"P", "y", "t", "h", "o", "n", ",", " ", "S", "Q", "L", ",", " ", "E",
    "x", "c", "e", "l">>

\* '• SAP - ERP'
SMarked ==
  <<Bullet, " ", "S", "A", "P", " ", "-", " ", "E", "R", "P">>

\* '$5M Acme'
SDollar ==
  <<"$", "5", "M", " ", "A", "c", "m", "e">>

SegLinePool ==
  {SHeader, SCore, STools, SEducation,
   STen, SLong, SMarked, SDollar}

notSeg ==
  <<expVars, validateVars, llmVars, dateVars, extractVars, formatVars,
    eduVars, serveVars>>

\* lines 171-176: the text of a resume, before the first pattern is searched
InitSeg ==
  /\ \E ls \in SeqsUpTo(SegLinePool, MaxSegLines) :
       seg_text = Join(ls, <<NL>>)
  /\ seg_k = 1
  /\ seg_skills = <<>>
  /\ seg_matched = {}
  /\ seg_used = 0
  /\ IdleEarlier
  /\ IdleEdu
  /\ IdleServe

\* lines 177-179: the pattern does not match, the loop goes on
SkillsNoMatch ==
  /\ seg_k \in 1..3
  /\ ~SkillsMatch(seg_text, seg_k).found
  /\ seg_k' = seg_k + 1
  /\ UNCHANGED <<seg_text, seg_skills, seg_matched, seg_used, notSeg>>

\* lines 177-186: the pattern matches, skills_text has 10 characters or
\* fewer, the loop goes on
SkillsTooShort ==
  /\ seg_k \in 1..3
  /\ \E m \in {SkillsMatch(seg_text, seg_k)} :
       /\ m.found
       /\ ~LongEnough(SkillsText(m.group))
  /\ seg_matched' = seg_matched \cup {seg_k}
  /\ seg_k' = seg_k + 1
  /\ UNCHANGED <<seg_text, seg_skills, seg_used, notSeg>>

\* lines 177-188: the pattern matches, skills_text is stored and the loop is
\* left
SkillsStored ==
  /\ seg_k \in 1..3
  /\ \E m \in {SkillsMatch(seg_text, seg_k)} :
       /\ m.found
       /\ LongEnough(SkillsText(m.group))
       /\ seg_skills' = SkillsText(m.group)
  /\ seg_matched' = seg_matched \cup {seg_k}
  /\ seg_used' = seg_k
  /\ seg_k' = 4
  /\ UNCHANGED <<seg_text, notSeg>>

NextSeg == SkillsNoMatch \/ SkillsTooShort \/ SkillsStored

SpecSeg == InitSeg /\ [][NextSeg]_vars

\* C24: the zone body is taken from the first pattern of the list that
\* matches the text; once a pattern has matched, no later pattern is used.
C24_Original == \A k \in seg_matched : seg_used \in {0, k} \/ seg_used < k

\* the first pattern did not match, the second one did and gave the skills
C24_Witness ==
  /\ seg_k = 4
  /\ seg_matched = {2}
  /\ seg_used = 2
  /\ seg_skills = SLong

(***************************************************************************)
(* The servers: format_resume_file of the web app (src/rfq/app.py, lines   *)
(* 38-78) and handle_file_shared of the Slack bot (src/slack_bot.py, lines *)
(* 94-140).  Both handlers empty the input folder of the formatter, copy   *)
(* the upload into it, run format_resume.py on the folder (batch_process,  *)
(* lines 1088-1110) and take the newest *_Formatted.docx of the output     *)
(* folder.  The handlers of different requests run concurrently; a step    *)
(* below is one access to the shared folders or to temp_resume_data.json.  *)
(***************************************************************************)
MaxRequests == 2

Requests == 1..MaxRequests

\* the candidate's name the parser finds in a resume (line 1064)
CandidateNames == {"Ann", "Bob"}

\* an uploaded resume: whether format_resume can extract and parse it, and
\* the name found in it
Uploads == [ok : BOOLEAN, name : CandidateNames]

\* a document of the output folder: its file name, and the request whose
\* resume its content was generated from
Doc(name, source) == [name |-> name, source |-> source]

\* fs.writeFileSync(outputPath, buffer): the file becomes the newest of the
\* folder, replacing a file of the same name
Put(folder, doc) ==
  SelectSeq(folder, LAMBDA d : d.name # doc.name) \o <<doc>>

notServe ==
  <<expVars, validateVars, llmVars, dateVars, extractVars, formatVars,
    eduVars, segVars>>

InitServe ==
  /\ upload \in [Requests -> Uploads]
  /\ input_folder = {}
  /\ output_folder = <<>>
  /\ temp_json = 0
  /\ req_pc = [r \in Requests |-> "start"]
  /\ todo = [r \in Requests |-> {}]
  /\ cur = [r \in Requests |-> 0]
  /\ sent = [r \in Requests |-> None]
  /\ IdleEarlier
  /\ IdleEdu
  /\ IdleSeg

\* app.py lines 44-46, slack_bot.py lines 104-105: the input folder is emptied
ClearInput(r) ==
  /\ req_pc[r] = "start"
  /\ input_folder' = {}
  /\ req_pc' = [req_pc EXCEPT ![r] = "copy"]
  /\ UNCHANGED <<upload, output_folder, temp_json, todo, cur, sent, notServe>>

\* app.py line 48, slack_bot.py line 107: the upload is copied into it
CopyUpload(r) ==
  /\ req_pc[r] = "copy"
  /\ input_folder' = input_folder \cup {r}
  /\ req_pc' = [req_pc EXCEPT ![r] = "run"]
  /\ UNCHANGED <<upload, output_folder, temp_json, todo, cur, sent, notServe>>

\* app.py line 55, slack_bot.py line 110: format_resume.py is started and
\* batch_process lists the resumes of the input folder (line 1092)
LaunchFormatter(r) ==
  /\ req_pc[r] = "run"
  /\ todo' = [todo EXCEPT ![r] = input_folder]
  /\ req_pc' = [req_pc EXCEPT ![r] = "batch"]
  /\ UNCHANGED
       <<upload, input_folder, output_folder, temp_json, cur, sent, notServe>>

\* lines 1104-1105 and 1012-1056: format_resume returns False for a resume
\* that is gone from the folder or that cannot be extracted or parsed
FormatFails(r) ==
  /\ req_pc[r] = "batch"
  /\ \E f \in todo[r] :
       /\ f \notin input_folder \/ ~upload[f].ok
       /\ todo' = [todo EXCEPT ![r] = todo[r] \ {f}]
  /\ UNCHANGED
       <<upload, input_folder, output_folder, temp_json, req_pc, cur, sent,
         notServe>>

\* lines 1104-1105 and 1012-1066: format_resume has extracted and parsed a
\* resume and calls generate_formatted_docx
FormatParses(r) ==
  /\ req_pc[r] = "batch"
  /\ \E f \in todo[r] :
       /\ f \in input_folder
       /\ upload[f].ok
       /\ todo' = [todo EXCEPT ![r] = todo[r] \ {f}]
       /\ cur' = [cur EXCEPT ![r] = f]
  /\ req_pc' = [req_pc EXCEPT ![r] = "temp"]
  /\ UNCHANGED
       <<upload, input_folder, output_folder, temp_json, sent, notServe>>

\* lines 739-741: the parsed data is written to temp_resume_data.json
WriteTemp(r) ==
  /\ req_pc[r] = "temp"
  /\ temp_json' = cur[r]
  /\ req_pc' = [req_pc EXCEPT ![r] = "node"]
  /\ UNCHANGED <<upload, input_folder, output_folder, todo, cur, sent, notServe>>

\* lines 977-990: node reads temp_resume_data.json and writes the document
\* named after the candidate (it fails when the file is gone); the file is
\* removed afterwards
RunNode(r) ==
  /\ req_pc[r] = "node"
  /\ output_folder' =
       (IF temp_json = 0 THEN output_folder
        ELSE Put(output_folder, Doc(upload[cur[r]].name, temp_json)))
  /\ temp_json' = 0
  /\ cur' = [cur EXCEPT ![r] = 0]
  /\ req_pc' = [req_pc EXCEPT ![r] = "batch"]
  /\ UNCHANGED <<upload, input_folder, todo, sent, notServe>>

\* lines 1107-1110: batch_process is over, whatever format_resume returned;
\* the return code is 0
FormatterExits(r) ==
  /\ req_pc[r] = "batch"
  /\ todo[r] = {}
  /\ req_pc' = [req_pc EXCEPT ![r] = "find"]
  /\ UNCHANGED
       <<upload, input_folder, output_folder, temp_json, todo, cur, sent,
         notServe>>

\* app.py lines 68-78, slack_bot.py lines 120-131: the newest document of the
\* output folder is what the request returns
FindOutput(r) ==
  /\ req_pc[r] = "find"
  /\ output_folder # <<>>
  /\ sent' = [sent EXCEPT ![r] = output_folder[Len(output_folder)]]
  /\ req_pc' = [req_pc EXCEPT ![r] = "done"]
  /\ UNCHANGED <<upload, input_folder, output_folder, temp_json, todo, cur, notServe>>

\* app.py lines 75-76, slack_bot.py lines 126-127: no document in the folder
NoOutput(r) ==
  /\ req_pc[r] = "find"
  /\ output_folder = <<>>
  /\ req_pc' = [req_pc EXCEPT ![r] = "failed"]
  /\ UNCHANGED
       <<upload, input_folder, output_folder, temp_json, todo, cur, sent,
         notServe>>

NextServe ==
  \E r \in Requests :
    \/ ClearInput(r)
    \/ CopyUpload(r)
    \/ LaunchFormatter(r)
    \/ FormatFails(r)
    \/ FormatParses(r)
    \/ WriteTemp(r)
    \/ RunNode(r)
    \/ FormatterExits(r)
    \/ FindOutput(r)
    \/ NoOutput(r)

SpecServe == InitServe /\ [][NextServe]_vars

\* C26: every document a request returns was generated from the file given
\* to that request, under any interleaving of requests and also when the
\* formatting of a request fails.
C26_Original ==
  \A r \in Requests : sent[r] # None => sent[r].source = r

\* two requests have each returned the document made from their own upload
C26_Witness ==
  /\ \A r \in Requests : req_pc[r] = "done" /\ sent[r].source = r
  /\ sent[1] # sent[2]

====
